---- MODULE Spec2Model ----
(***************************************************************************)
(* The validation orchestration engine of sonic-form (src/src/useForm.ts). *)
(*                                                                         *)
(* The caller owns two containers, the value map and the error map, and    *)
(* hands the engine their current content (formValues, errors) together    *)
(* with two update functions (setFormValues, setErrors) each time useForm  *)
(* is instantiated.  The handlers of an instantiation close over the maps  *)
(* they were given; the update functions apply functional updates to the   *)
(* caller's containers (stateValues, stateErrors).                         *)
(*                                                                         *)
(* validate is an async function: it runs synchronously up to its first    *)
(* await (the first validation is invoked inside the call; a run without   *)
(* validations writes the error map inside the call) and continues, one    *)
(* validation per settlement, in later turns of the event loop.            *)
(***************************************************************************)
EXTENDS Integers, Sequences, FiniteSets, TLC

VARIABLES
    validationOptions,  \* the static field configuration, in declared order
    NODE_ENV,           \* process.env.NODE_ENV
    stateValues,        \* the caller's value map (target of setFormValues)
    stateErrors,        \* the caller's error map (target of setErrors)
    formValues,         \* value map captured by the current instantiation
    errors,             \* error map captured by the current instantiation
    runs,               \* pending validate() calls started by change/blur
    alls,               \* pending validateAll() calls
    last,               \* the most recent handler call and what it did
    lastWrite,          \* the most recent completed validate() call
    lastAll,            \* the most recent completed validateAll() call
    nEvents,            \* number of handler calls so far
    budget,             \* number of handler calls the behaviour may make
    boundArgs,          \* the bound arguments of a partial (partialFn.ts)
    applied             \* the calls of that partial, and what f received

vars == <<validationOptions, NODE_ENV, stateValues, stateErrors, formValues,
          errors, runs, alls, last, lastWrite, lastAll, nEvents, budget,
          boundArgs, applied>>

---------------------------------------------------------------------------
(* Bounds of the model *)

\* Number of handler calls in one behaviour.
MaxEvents == 1

\* Longest validation sequence of the enumerated configurations.
MaxValidations == 3

\* Longest bound argument list of a partial.
MaxBound == 2

\* Largest number of call-time arguments.
MaxCallArgs == 2

\* Number of calls of one partial in one behaviour.
MaxCalls == 2

---------------------------------------------------------------------------
(* JavaScript values *)

Undefined == "undefined"    \* undefined, also the value of an absent key
Null == "null"

Names == {"startDate", "endDate", "dateInput"}

\* Values an input element can carry.
Values == {"", "x"}

\* The value handleDatePickerChange derives from the event's side payload.
DateOf(detail) == "Date(" \o detail \o ")"

Details == {"2023-01-01"}

Truthy(v) == v \notin {Undefined, Null, ""}

\* value.length of the modelled strings; a Date has no length.
LengthOf(v) == IF v = "x" THEN 1 ELSE 0

---------------------------------------------------------------------------
(* The partial-application utility (partialFn.ts).  f is any function: what  *)
(* matters is the argument list it is applied to.                           *)

\* The placeholder symbol.
partialFn_ == "partialFn_"

\* Variant that leaves the placeholder where the call supplies no argument.
ArgAtOrPlaceholder(callArgs, nextArg) ==
    IF nextArg + 1 \in DOMAIN callArgs THEN callArgs[nextArg + 1] ELSE partialFn_

\* callArgs[nextArg] of a JavaScript array, nextArg counting from 0.
ArgAt(callArgs, nextArg) ==
    IF nextArg + 1 \in DOMAIN callArgs THEN callArgs[nextArg + 1] ELSE Undefined

\* The first loop of the partial, from index i on: the slots of resultArgs
\* and the number of call-time arguments consumed.
RECURSIVE Replace(_, _, _, _)
Replace(bound, callArgs, i, nextArg) ==
    IF i > Len(bound) THEN [resultArgs |-> <<>>, nextArg |-> nextArg]
    ELSE IF bound[i] = partialFn_
    THEN LET rest == Replace(bound, callArgs, i + 1, nextArg + 1)
         IN  [resultArgs |-> <<ArgAt(callArgs, nextArg)>> \o rest.resultArgs,
              nextArg |-> rest.nextArg]
    ELSE LET rest == Replace(bound, callArgs, i + 1, nextArg)
         IN  [resultArgs |-> <<bound[i]>> \o rest.resultArgs,
              nextArg |-> rest.nextArg]

\* The second loop: the call-time arguments from nextArg on.
Remaining(callArgs, nextArg) ==
    IF nextArg < Len(callArgs) THEN SubSeq(callArgs, nextArg + 1, Len(callArgs))
    ELSE <<>>

\* Variant that drops the call-time arguments no placeholder consumed.
partialFnDroppingRest(bound, callArgs) == Replace(bound, callArgs, 1, 0).resultArgs

\* partialFn(f, ...bound)(...callArgs): the argument list f is applied to.
partialFn(bound, callArgs) ==
    Replace(bound, callArgs, 1, 0).resultArgs
        \o Remaining(callArgs, Replace(bound, callArgs, 1, 0).nextArg)

\* Variant in which the partial fills the placeholders of its own bound
\* list when it is called.
BoundAfterCallInPlace(bound, callArgs) == Replace(bound, callArgs, 1, 0).resultArgs

\* The bound list after a call: the partial assigns to resultArgs only.
BoundAfterCall(bound, callArgs) == bound

\* typeof arg === 'string' && arg.startsWith('@')
IsFieldReference(arg) == \E n \in Names : arg = "@" \o n

\* arg.slice(1)
FieldNameOf(arg) == CHOOSE n \in Names : arg = "@" \o n

\* The optional parameter formValues is a sequence of at most one map: the
\* empty sequence when the caller passes none.
Resolve(arg, formValuesArg) ==
    IF IsFieldReference(arg) /\ Len(formValuesArg) > 0
    THEN formValuesArg[1][FieldNameOf(arg)]
    ELSE arg

\* Variant that passes the bound arguments on as they are.
partialFnWithFieldsUnresolved(bound, value, formValuesArg) ==
    partialFn(bound, <<value>>)

\* partialFnWithFields(f, ...bound)(value, formValues): the argument list f
\* is applied to.
partialFnWithFields(bound, value, formValuesArg) ==
    partialFn([i \in DOMAIN bound |-> Resolve(bound[i], formValuesArg)], <<value>>)

\* date.toString().trim() of the modelled values.
Trim(s) == IF s \in {" ", "   "} THEN "" ELSE s

\* Boolean(date && date.toString().trim().length > 0)
HasDate(date) == Truthy(date) /\ Trim(date) # ""

\* Variant that does not trim.
areDateFieldsPairedUntrimmed(date1, date2) ==
    IF Truthy(date1) \/ Truthy(date2) THEN Truthy(date1) /\ Truthy(date2) ELSE TRUE

areDateFieldsPaired(date1, date2) ==
    IF HasDate(date1) \/ HasDate(date2) THEN HasDate(date1) /\ HasDate(date2)
    ELSE TRUE

---------------------------------------------------------------------------
(* The validator contract: a predicate returns, or throws/rejects.  The    *)
(* three predicates follow the catalog and the tests.                      *)

isRequired(value) ==
    IF value = Null \/ value = Undefined THEN FALSE
    ELSE IF value \in Values THEN LengthOf(value) > 0
    ELSE TRUE

hasMaxLength(maxLength, value) ==
    IF ~Truthy(value) THEN TRUE
    ELSE IF value \in Values THEN LengthOf(value) <= maxLength
    ELSE FALSE

\* Field-aware validators of the demo application: areDateFieldsPaired with
\* the sibling date bound as a field reference.
FieldAware == {"areDateFieldsPaired(_, @endDate)", "areDateFieldsPaired(@startDate, _)"}

\* The bound arguments given to partialFnWithFields.
BoundOf(isValid) ==
    IF isValid = "areDateFieldsPaired(_, @endDate)" THEN <<partialFn_, "@endDate">>
    ELSE <<"@startDate", partialFn_>>

\* The loop calls validation.isValid(valueToValidate): the second parameter
\* of a field-aware validator, formValues, is not supplied.
PassedFormValues == <<>>

\* The arguments the predicate of a field-aware validator receives.
Received(isValid, value) == partialFnWithFields(BoundOf(isValid), value, PassedFormValues)

\* Variant in which a promise that does not settle is rejected after a while.
IsValidOutcomeWithTimeout(isValid, value) ==
    CASE isValid = "isRequired" -> IF isRequired(value) THEN "true" ELSE "false"
      [] isValid = "hasMaxLength(0)" -> IF hasMaxLength(0, value) THEN "true" ELSE "false"
      [] isValid = "throws" -> "throw"
      [] isValid = "hangs" -> "throw"
      [] isValid \in FieldAware ->
            IF areDateFieldsPaired(Received(isValid, value)[1], Received(isValid, value)[2])
            THEN "true" ELSE "false"

\* The settled outcome of validation.isValid(value); "never" for a promise
\* that does not settle.
IsValidOutcome(isValid, value) ==
    CASE isValid = "isRequired" -> IF isRequired(value) THEN "true" ELSE "false"
      [] isValid = "hasMaxLength(0)" -> IF hasMaxLength(0, value) THEN "true" ELSE "false"
      [] isValid = "throws" -> "throw"
      [] isValid = "hangs" -> "never"
      [] isValid \in FieldAware ->
            IF areDateFieldsPaired(Received(isValid, value)[1], Received(isValid, value)[2])
            THEN "true" ELSE "false"

\* Error messages are told apart by the position of their validation.
MessageAt(i) == "m" \o ToString(i)

Predicates == {"isRequired", "hasMaxLength(0)", "throws", "hangs"} \cup FieldAware

\* Validation entries of the enumerated sequences: a predicate and whether
\* its errorMessage is given, empty or missing.
Catalog ==
    { <<"isRequired", "given">>, <<"isRequired", "empty">>,
      <<"isRequired", "missing">>,
      <<"hasMaxLength(0)", "given">>,
      <<"throws", "given">>, <<"throws", "missing">> }

Validation(i, entry) ==
    [isValid |-> entry[1],
     errorMessage |-> CASE entry[2] = "given" -> MessageAt(i)
                        [] entry[2] = "empty" -> ""
                        [] entry[2] = "missing" -> Undefined]

ValidationSeqs(n) ==
    { [i \in 1..n |-> Validation(i, c[i])] : c \in [1..n -> Catalog] }

AllValidationSeqs == UNION { ValidationSeqs(n) : n \in 0..MaxValidations }

---------------------------------------------------------------------------
(* Field configurations (ValidationOption).  An absent validations or      *)
(* relatedFields list is the empty sequence, which the code treats alike.  *)

Field(name, validations, relatedFields, nestedFieldOf) ==
    [name |-> name, validations |-> validations,
     relatedFields |-> relatedFields, nestedFieldOf |-> nestedFieldOf]

Required == <<Validation(1, <<"isRequired", "given">>)>>

RequiredAndShort ==
    <<Validation(1, <<"isRequired", "given">>),
      Validation(2, <<"hasMaxLength(0)", "given">>)>>

Short == <<Validation(1, <<"hasMaxLength(0)", "given">>)>>

\* Two primary fields that list each other, and an auxiliary input of the
\* first (README, "Cross-field Validation" and "Nested Field Support").
DatesConfig ==
    << Field("startDate", Required, <<"endDate">>, Undefined),
       Field("endDate", RequiredAndShort, <<"startDate">>, Undefined),
       Field("dateInput", <<>>, <<>>, "startDate") >>

\* The auxiliary input declared before its main field; a third name that
\* has no configuration entry.
NestedConfig ==
    << Field("dateInput", <<>>, <<>>, "startDate"),
       Field("startDate", Required, <<>>, Undefined) >>

\* A field that declares both nestedFieldOf and relatedFields.
ExclusiveConfig ==
    << Field("startDate", Short, <<>>, Undefined),
       Field("endDate", Required, <<>>, Undefined),
       Field("dateInput", <<>>, <<"endDate">>, "startDate") >>

\* A primary field without validations whose sibling has some.
PlainConfig ==
    << Field("startDate", <<>>, <<"endDate">>, Undefined),
       Field("endDate", Short, <<>>, Undefined) >>

EngineConfigs == {DatesConfig, NestedConfig, ExclusiveConfig, PlainConfig}

\* One field, every validation sequence up to MaxValidations.
RunnerConfigs ==
    { << Field("startDate", vs, <<>>, Undefined) >> : vs \in AllValidationSeqs }

ConfiguredIn(config) == { config[i].name : i \in DOMAIN config }

OptionIn(config, name) ==
    config[CHOOSE i \in DOMAIN config : config[i].name = name]

HasExclusive(config) ==
    \E i \in DOMAIN config :
        Truthy(config[i].nestedFieldOf) /\ Len(config[i].relatedFields) > 0

\* The build mode is observable only through the mutual exclusivity check.
EnvsOf(config) ==
    IF HasExclusive(config) THEN {"development", "production"} ELSE {"development"}

Configured == ConfiguredIn(validationOptions)

Option(name) == OptionIn(validationOptions, name)

---------------------------------------------------------------------------
(* Field resolution *)

\* An event target: its name property and what getAttribute('name') returns.
Target(name, attr) == [name |-> name, attr |-> attr]

Targets ==
    { Target(n, Null) : n \in Names }
        \cup { Target(Null, Null), Target(Null, "startDate") }

\* Variant without the getAttribute('name') fallback.
getFieldNameOfProperty(target) ==
    IF target.name = Null /\ target.attr = Null THEN Undefined
    ELSE target.name

getFieldName(target) ==
    IF target.name = Null /\ target.attr = Null THEN Undefined
    ELSE IF Truthy(target.name) THEN target.name
    ELSE target.attr

---------------------------------------------------------------------------
(* The validation runner: validate(pname, currentValue) *)

\* Variant without redirection: the run stays on the field it was called for.
NameToValidateOwn(pname) == pname

\* nestedFieldOf redirects the run to the main field.
NameToValidate(pname) ==
    IF Truthy(Option(pname).nestedFieldOf) THEN Option(pname).nestedFieldOf
    ELSE pname

\* namedValidationOptions?.validations, or [] when there is none.
Validations(name) ==
    IF name \in Configured THEN Option(name).validations ELSE <<>>

\* Variant that always reads the stored value.
ValueToValidateStored(name, currentValue, values) == values[name]

\* The explicitly supplied value when there is one, else the stored value
\* of the map `values` the handler closed over.
ValueToValidate(name, currentValue, values) ==
    IF currentValue # Undefined THEN currentValue ELSE values[name]

\* Variant of the loop body in which the first failure is kept.
RecordResultFirstWins(errorMessage, validation, outcome) ==
    CASE outcome = "true" -> errorMessage
      [] outcome = "false" ->
            IF errorMessage = "" THEN validation.errorMessage ELSE errorMessage
      [] outcome = "throw" ->
            IF errorMessage # "" THEN errorMessage
            ELSE IF Truthy(validation.errorMessage) THEN validation.errorMessage
            ELSE "Validation failed"

\* Variant of the loop body in which a thrown fault records no fallback.
RecordResultNoFallback(errorMessage, validation, outcome) ==
    CASE outcome = "true" -> errorMessage
      [] outcome = "false" -> validation.errorMessage
      [] outcome = "throw" -> validation.errorMessage

\* The body of the loop: errorMessage after `validation` settled as `outcome`.
RecordResult(errorMessage, validation, outcome) ==
    CASE outcome = "true" -> errorMessage
      [] outcome = "false" -> validation.errorMessage
      [] outcome = "throw" ->
            IF Truthy(validation.errorMessage) THEN validation.errorMessage
            ELSE "Validation failed"

\* The loop goes on to validation i + 1 of n whatever validation i gave.
ContinueLoop(i, n, outcome) == i < n

\* Variant that returns !errorMessage.
ReportsValidUnlessTruthy(errorMessage) == ~Truthy(errorMessage)

\* What validate returns.
ReportsValid(errorMessage) == errorMessage = ""

\* A validate() call that awaits validation i; validations 1..i have been
\* invoked, in this order.  ev and op are the handler call that started it,
\* fan tells a fan-out call from the call for the triggering field.
Run(ev, op, fan, pname, name, value) ==
    [ev |-> ev, op |-> op, fan |-> fan, pname |-> pname, name |-> name,
     value |-> value, i |-> 1, errorMessage |-> ""]

\* A validate() call that has written errorMessage under run.name.
Completed(run, invoked, errorMessage) ==
    [ev |-> run.ev, op |-> run.op, fan |-> run.fan, pname |-> run.pname,
     name |-> run.name, value |-> run.value, invoked |-> invoked,
     errorMessage |-> errorMessage, result |-> ReportsValid(errorMessage)]

NoWrite ==
    [ev |-> 0, op |-> "none", fan |-> FALSE, pname |-> Undefined,
     name |-> Undefined, value |-> Undefined, invoked |-> 0,
     errorMessage |-> "", result |-> TRUE]

Pending(run) == Validations(run.name)[run.i]

Outcome(run) == IsValidOutcome(Pending(run).isValid, run.value)

NextMessage(run) == RecordResult(run.errorMessage, Pending(run), Outcome(run))

\* `await` resumes the call only when the awaited promise settles.
Settles(run) == Outcome(run) # "never"

Continues(run) == ContinueLoop(run.i, Len(Validations(run.name)), Outcome(run))

\* Variant that invokes all remaining validations at once.
AdvanceAllAtOnce(run) ==
    [run EXCEPT !.i = Len(Validations(run.name)), !.errorMessage = NextMessage(run)]

\* The loop goes round: validation i has settled, validation i + 1 is invoked.
Advance(run) == [run EXCEPT !.i = @ + 1, !.errorMessage = NextMessage(run)]

\* The effects of the synchronous part of handler code are threaded through
\* a record: the caller's error map, the pending runs, the validate calls
\* made (calls), those rejected with a TypeError, the keys written, the
\* latest completed run and the fault thrown to the caller.
Effects(errs, pending, completed) ==
    [errors |-> errs, runs |-> pending, calls |-> <<>>, rejected |-> {},
     wrote |-> {}, lastWrite |-> completed, fault |-> "none"]

\* Variant that returns at once, without writing, when there is nothing to
\* validate.
validateSkippingEmpty(st, pname, currentValue, values, ev, op, fan) ==
    IF pname \notin Configured
    THEN [st EXCEPT !.calls = Append(@, pname), !.rejected = @ \cup {pname}]
    ELSE LET name == NameToValidate(pname)
             run == Run(ev, op, fan, pname, name,
                        ValueToValidate(name, currentValue, values))
         IN  IF Len(Validations(name)) = 0
             THEN [st EXCEPT !.calls = Append(@, pname)]
             ELSE [st EXCEPT !.calls = Append(@, pname),
                             !.runs = Append(@, run)]

\* validate(pname, currentValue) up to its first await.  `values` is the
\* value map of the closure.  validationOptions[pname].nestedFieldOf throws
\* inside the async function when pname has no entry: the promise rejects.
validate(st, pname, currentValue, values, ev, op, fan) ==
    IF pname \notin Configured
    THEN [st EXCEPT !.calls = Append(@, pname), !.rejected = @ \cup {pname}]
    ELSE LET name == NameToValidate(pname)
             run == Run(ev, op, fan, pname, name,
                        ValueToValidate(name, currentValue, values))
         IN  IF Len(Validations(name)) = 0
             THEN [st EXCEPT !.calls = Append(@, pname),
                             !.errors[name] = "",
                             !.wrote = @ \cup {name},
                             !.lastWrite = Completed(run, 0, "")]
             ELSE [st EXCEPT !.calls = Append(@, pname),
                             !.runs = Append(@, run)]

Remove(seq, k) == [j \in 1..(Len(seq) - 1) |-> IF j < k THEN seq[j] ELSE seq[j + 1]]

\* Another call wrote the error map while these validateAll calls ran.
Disturb(procs, except) ==
    [j \in DOMAIN procs |->
        IF j = except THEN procs[j] ELSE [procs[j] EXCEPT !.clean = FALSE]]

---------------------------------------------------------------------------
(* The orchestration engine: change and blur *)

\* A requested functional update of the value map: {...prevState, [field]: value}
Update(field, value) == [field |-> field, value |-> value]

RECURSIVE Merge(_, _)
Merge(values, updates) ==
    IF updates = <<>> THEN values
    ELSE Merge([values EXCEPT ![Head(updates).field] = Head(updates).value],
               Tail(updates))

\* The updates setValueFromChangeEvent requests through setFormValues.
setValueFromChangeEvent(target, value) ==
    LET name == getFieldName(target)
    IN  IF ~Truthy(name) THEN <<>>
        ELSE IF value = Undefined THEN <<>>
        ELSE <<Update(name, value)>>

\* Variant of validateFromEvent that passes no value to validate.
validateFromEventStored(st, target, value, ev, op) ==
    LET name == getFieldName(target)
    IN  IF Truthy(name) THEN validate(st, name, Undefined, formValues, ev, op, FALSE)
        ELSE st

\* validate(name, event.target.value), for change and blur events alike.
validateFromEvent(st, target, value, ev, op) ==
    LET name == getFieldName(target)
    IN  IF Truthy(name) THEN validate(st, name, value, formValues, ev, op, FALSE)
        ELSE st

\* Variant of the fan-out loop that validates every related field.
RECURSIVE ValidateRelatedAll(_, _, _, _, _)
ValidateRelatedAll(st, relatedFields, j, ev, op) ==
    IF j > Len(relatedFields) THEN st
    ELSE ValidateRelatedAll(
            validate(st, relatedFields[j], Undefined, formValues, ev, op, TRUE),
            relatedFields, j + 1, ev, op)

\* Variant of the fan-out loop that goes one level further: a re-validated
\* related field has its own related fields validated as well.
RECURSIVE ValidateRelatedTwoLevels(_, _, _, _, _)
ValidateRelatedTwoLevels(st, relatedFields, j, ev, op) ==
    IF j > Len(relatedFields) THEN st
    ELSE ValidateRelatedTwoLevels(
            IF Truthy(errors[relatedFields[j]])
            THEN ValidateRelatedAll(
                    validate(st, relatedFields[j], Undefined, formValues, ev, op, TRUE),
                    IF relatedFields[j] \in Configured
                    THEN Option(relatedFields[j]).relatedFields ELSE <<>>,
                    1, ev, op)
            ELSE st,
            relatedFields, j + 1, ev, op)

\* for (const fieldName of relatedFields) if (errors[fieldName]) validate(fieldName)
RECURSIVE ValidateRelated(_, _, _, _, _)
ValidateRelated(st, relatedFields, j, ev, op) ==
    IF j > Len(relatedFields) THEN st
    ELSE ValidateRelated(
            IF Truthy(errors[relatedFields[j]])
            THEN validate(st, relatedFields[j], Undefined, formValues, ev, op, TRUE)
            ELSE st,
            relatedFields, j + 1, ev, op)

\* Variant of the check that needs more than one related field.
ExclusivityFaultSeveral(fieldConfig) ==
    /\ NODE_ENV # "production"
    /\ Truthy(fieldConfig.nestedFieldOf)
    /\ Len(fieldConfig.relatedFields) > 1

\* Variant of the check that ignores the build mode.
ExclusivityFaultAnyMode(fieldConfig) ==
    /\ Truthy(fieldConfig.nestedFieldOf)
    /\ Len(fieldConfig.relatedFields) > 0

\* The development-mode check of validateRelatedFields.
ExclusivityFault(fieldConfig) ==
    /\ NODE_ENV # "production"
    /\ Truthy(fieldConfig.nestedFieldOf)
    /\ Len(fieldConfig.relatedFields) > 0

\* Variant of validateRelatedFields without the `if (!name) return` guard.
validateRelatedFieldsUnguarded(st, target, ev, op) ==
    LET name == getFieldName(target)
    IN  IF name \notin Configured THEN [st EXCEPT !.fault = "TypeError"]
        ELSE IF ExclusivityFault(Option(name)) THEN [st EXCEPT !.fault = "Error"]
        ELSE IF Truthy(Option(name).nestedFieldOf)
             THEN validate(st, Option(name).nestedFieldOf, Undefined, formValues,
                           ev, op, TRUE)
        ELSE ValidateRelated(st, Option(name).relatedFields, 1, ev, op)

\* fieldConfig.nestedFieldOf throws a TypeError when the name has no entry.
validateRelatedFields(st, target, ev, op) ==
    LET name == getFieldName(target)
    IN  IF ~Truthy(name) THEN st
        ELSE IF name \notin Configured THEN [st EXCEPT !.fault = "TypeError"]
        ELSE IF ExclusivityFault(Option(name)) THEN [st EXCEPT !.fault = "Error"]
        ELSE IF Truthy(Option(name).nestedFieldOf)
             THEN validate(st, Option(name).nestedFieldOf, Undefined, formValues,
                           ev, op, TRUE)
        ELSE ValidateRelated(st, Option(name).relatedFields, 1, ev, op)

\* console.error / console.warn output of a change or blur.
Diagnostics(op, target, value) ==
    (IF getFieldName(target) = Undefined THEN {"You must specify a name for this form field."} ELSE {})
    \cup (IF op # "handleBlur" /\ Truthy(getFieldName(target)) /\ value = Undefined
          THEN {"The changeEvent value is undefined."} ELSE {})

\* Variant in which handleSubmit validates before it suppresses the default.
SyncStepsValidateFirst(op, calls) ==
    [i \in DOMAIN calls |-> "validate"]
        \o (IF op = "handleSubmit" THEN <<"preventDefault">> ELSE <<>>)

\* What a handler call does to its event and to the runner before it
\* returns, in order: handleSubmit calls event.preventDefault() first.
SyncSteps(op, calls) ==
    (IF op = "handleSubmit" THEN <<"preventDefault">> ELSE <<>>)
        \o [i \in DOMAIN calls |-> "validate"]

\* The record of a handler call.
Event(op, target, value, updates, st) ==
    [serial |-> nEvents + 1, op |-> op, target |-> target, value |-> value,
     merged |-> updates, fault |-> st.fault, calls |-> st.calls, rejected |-> st.rejected,
     wrote |-> st.wrote,
     prior |-> { n \in Names : Truthy(errors[n]) },
     diagnostics |-> Diagnostics(op, target, value),
     steps |-> SyncSteps(op, st.calls),
     defaultPrevented |->
        \E i \in DOMAIN SyncSteps(op, st.calls) :
            SyncSteps(op, st.calls)[i] = "preventDefault"]

NoTarget == Target(Undefined, Undefined)

NoEffects == Effects(stateErrors, runs, lastWrite)

NoEvent ==
    [serial |-> 0, op |-> "none", target |-> NoTarget, value |-> Undefined,
     merged |-> <<>>, fault |-> "none", calls |-> <<>>, rejected |-> {}, wrote |-> {},
     prior |-> {}, diagnostics |-> {}, steps |-> <<>>, defaultPrevented |-> FALSE]

\* Publishes the effects of a handler call: the requested value updates
\* and what its validate calls did.
Publish(op, target, value, updates, st) ==
    /\ nEvents < budget
    /\ stateValues' = Merge(stateValues, updates)
    /\ stateErrors' = st.errors
    /\ runs' = st.runs
    /\ lastWrite' = st.lastWrite
    /\ alls' = IF st.wrote = {} THEN alls ELSE Disturb(alls, 0)
    /\ last' = Event(op, target, value, updates, st)
    /\ nEvents' = nEvents + 1
    /\ UNCHANGED <<budget, boundArgs, applied, validationOptions, NODE_ENV, formValues, errors, lastAll>>

\* setValueFromChangeEvent; validateFromEvent; validateRelatedFields
ChangeEffects(op, target, value) ==
    validateRelatedFields(
        validateFromEvent(NoEffects, target, value, nEvents + 1, op),
        target, nEvents + 1, op)

handleChange(target, value) ==
    Publish("handleChange", target, value,
            setValueFromChangeEvent(target, value),
            ChangeEffects("handleChange", target, value))

\* Variant of handleDropdownChange without the fan-out.
handleDropdownChangeNoFanOut(target, value) ==
    Publish("handleDropdownChange", target, value,
            setValueFromChangeEvent(target, value),
            validateFromEvent(NoEffects, target, value, nEvents + 1,
                              "handleDropdownChange"))

\* setValueFromChangeEvent; validateFromEvent; validateRelatedFields
handleDropdownChange(target, value) ==
    Publish("handleDropdownChange", target, value,
            setValueFromChangeEvent(target, value),
            ChangeEffects("handleDropdownChange", target, value))

\* Variant of handleBlur that also merges the event's value.
handleBlurMerging(target, value) ==
    Publish("handleBlur", target, value,
            setValueFromChangeEvent(target, value),
            ChangeEffects("handleBlur", target, value))

\* validateFromEvent; validateRelatedFields
handleBlur(target, value) ==
    Publish("handleBlur", target, value, <<>>,
            ChangeEffects("handleBlur", target, value))

\* Variant of handleCustomChange that validates like handleChange.
handleCustomChangeValidating(field, value) ==
    Publish("handleCustomChange", Target(field, Null), value,
            <<Update(field, value)>>,
            ChangeEffects("handleCustomChange", Target(field, Null), value))

\* handleCustomChange(field, value): a merge, no validation.
handleCustomChange(field, value) ==
    Publish("handleCustomChange", Target(field, Null), value,
            <<Update(field, value)>>, NoEffects)

\* Variant of handleDatePickerChange without the `if (!event.detail)` guard.
handleDatePickerChangeUnguarded(name, detail) ==
    Publish("handleDatePickerChange", Target(name, Null), detail,
            <<Update(name, DateOf(detail))>>, NoEffects)

\* handleDatePickerChange: nothing without the side payload event.detail,
\* else handleCustomChange(event.target.name, new Date(event.detail)).
handleDatePickerChange(name, detail) ==
    Publish("handleDatePickerChange", Target(name, Null), detail,
            IF ~Truthy(detail) THEN <<>> ELSE <<Update(name, DateOf(detail))>>,
            NoEffects)

---------------------------------------------------------------------------
(* Validate-all and submit *)

\* isFormValid = (await validate(name)) && isFormValid
CombineValid(result, isFormValid) == result /\ isFormValid

\* Variant of the for-in loop that stops at the first invalid field.
ContinueAllWhileValid(k, n, isFormValid) == k < n /\ isFormValid

\* The for-in loop goes on to field k + 1 of n whatever the fields so far gave.
ContinueAll(k, n, isFormValid) == k < n

\* A validateAll() call at field k of the configuration: values is the map
\* its closure reads, run its current validate() call, ret what that call
\* returned ("pending" while it runs), invalid the fields that reported
\* invalid, clean whether only this call wrote the error map since it began.
\* Variant that goes through the configuration from its last entry.
CallFieldBackwards(proc, k, errs) ==
    LET name == validationOptions[Len(validationOptions) + 1 - k].name
        st == validate(Effects(errs, <<>>, lastWrite), name, Undefined,
                       proc.values, proc.ev, proc.op, FALSE)
    IN  [proc |-> IF Len(st.runs) = 0
                  THEN [proc EXCEPT !.k = k, !.ret = "true",
                                    !.run = Run(proc.ev, proc.op, FALSE, name,
                                                NameToValidate(name), Undefined)]
                  ELSE [proc EXCEPT !.k = k, !.ret = "pending", !.run = st.runs[1]],
         st |-> st]

\* validate(name) for field k, up to its first await.
CallField(proc, k, errs) ==
    LET st == validate(Effects(errs, <<>>, lastWrite),
                       validationOptions[k].name, Undefined, proc.values,
                       proc.ev, proc.op, FALSE)
    IN  [proc |-> IF Len(st.runs) = 0
                  THEN [proc EXCEPT !.k = k, !.ret = "true",
                                    !.run = Run(proc.ev, proc.op, FALSE,
                                                validationOptions[k].name,
                                                NameToValidate(validationOptions[k].name),
                                                Undefined)]
                  ELSE [proc EXCEPT !.k = k, !.ret = "pending", !.run = st.runs[1]],
         st |-> st]

NewAll(ev, op) ==
    [ev |-> ev, op |-> op, values |-> formValues, k |-> 0,
     isFormValid |-> TRUE, ret |-> "pending", invalid |-> {}, clean |-> TRUE,
     run |-> Run(ev, op, FALSE, Undefined, Undefined, Undefined)]

\* What a finished validateAll() call leaves behind.
Finished(proc, isFormValid, invalid, errs) ==
    [ev |-> proc.ev, op |-> proc.op, values |-> proc.values,
     visited |-> proc.k, result |-> isFormValid, invalid |-> invalid,
     clean |-> proc.clean, errors |-> errs]

NoAll ==
    [ev |-> 0, op |-> "none", values |-> [n \in Names |-> Undefined],
     visited |-> 0, result |-> TRUE, invalid |-> {}, clean |-> TRUE,
     errors |-> [n \in Names |-> Undefined]]

\* validateAll(), and handleSubmit(event) which calls event.preventDefault()
\* and awaits validateAll().
StartAll(op) ==
    LET ev == nEvents + 1
        c == CallField(NewAll(ev, op), 1, stateErrors)
    IN  /\ nEvents < budget
        /\ alls' = Append(IF c.st.wrote = {} THEN alls ELSE Disturb(alls, 0), c.proc)
        /\ stateErrors' = c.st.errors
        /\ lastWrite' = c.st.lastWrite
        /\ last' = Event(op, NoTarget, Undefined, <<>>, c.st)
        /\ nEvents' = nEvents + 1
        /\ UNCHANGED <<budget, boundArgs, applied, validationOptions, NODE_ENV, stateValues, formValues,
                       errors, runs, lastAll>>

validateAll == StartAll("validateAll")

handleSubmit == StartAll("handleSubmit")

\* A validation awaited by a validate() call of validateAll settles.
SettleInAll(j) ==
    LET proc == alls[j]
        run == proc.run
    IN  /\ proc.ret = "pending"
        /\ Settles(run)
        /\ IF Continues(run)
           THEN /\ alls' = [alls EXCEPT ![j].run = Advance(run)]
                /\ UNCHANGED <<stateErrors, lastWrite>>
           ELSE /\ stateErrors' = [stateErrors EXCEPT ![run.name] = NextMessage(run)]
                /\ lastWrite' = Completed(run, run.i, NextMessage(run))
                /\ alls' = [Disturb(alls, j) EXCEPT
                              ![j].ret = IF ReportsValid(NextMessage(run))
                                         THEN "true" ELSE "false"]
        /\ UNCHANGED <<budget, boundArgs, applied, validationOptions, NODE_ENV, stateValues, formValues,
                       errors, runs, last, lastAll, nEvents>>

\* validateAll resumes after `await validate(name)`.
ResumeAll(j) ==
    LET proc == alls[j]
        isFormValid == CombineValid(proc.ret = "true", proc.isFormValid)
        invalid == IF proc.ret = "true" THEN proc.invalid
                   ELSE proc.invalid \cup {validationOptions[proc.k].name}
    IN  /\ proc.ret # "pending"
        /\ IF ContinueAll(proc.k, Len(validationOptions), isFormValid)
           THEN LET c == CallField([proc EXCEPT !.isFormValid = isFormValid,
                                                !.invalid = invalid],
                                   proc.k + 1, stateErrors)
                IN  /\ alls' = [(IF c.st.wrote = {} THEN alls ELSE Disturb(alls, j))
                                   EXCEPT ![j] = c.proc]
                    /\ stateErrors' = c.st.errors
                    /\ lastWrite' = c.st.lastWrite
                    /\ UNCHANGED lastAll
           ELSE /\ alls' = Remove(alls, j)
                /\ lastAll' = Finished(proc, isFormValid, invalid, stateErrors)
                /\ UNCHANGED <<stateErrors, lastWrite>>
        /\ UNCHANGED <<budget, boundArgs, applied, validationOptions, NODE_ENV, stateValues, formValues,
                       errors, runs, last, nEvents>>

---------------------------------------------------------------------------
(* Settlement of the validations awaited by change and blur *)

\* Variant that writes only a non-empty error: a run that found the value
\* valid leaves the entry of its field as it is.
SettleKeepingError(k) ==
    LET run == runs[k]
    IN  /\ Settles(run)
        /\ IF Continues(run)
           THEN /\ runs' = [runs EXCEPT ![k] = Advance(run)]
                /\ UNCHANGED <<stateErrors, lastWrite, alls>>
           ELSE /\ stateErrors' = IF NextMessage(run) = "" THEN stateErrors
                                  ELSE [stateErrors EXCEPT ![run.name] = NextMessage(run)]
                /\ lastWrite' = Completed(run, run.i, NextMessage(run))
                /\ runs' = Remove(runs, k)
                /\ alls' = Disturb(alls, 0)
        /\ UNCHANGED <<budget, boundArgs, applied, validationOptions, NODE_ENV, stateValues, formValues,
                       errors, last, lastAll, nEvents>>

\* Variant with a guard: a call that finishes while a call of a later
\* event is pending for the same field is discarded without writing.
SettleUnlessStale(k) ==
    LET run == runs[k]
        stale == \E j \in DOMAIN runs : runs[j].name = run.name /\ runs[j].ev > run.ev
    IN  /\ Settles(run)
        /\ IF Continues(run)
           THEN /\ runs' = [runs EXCEPT ![k] = Advance(run)]
                /\ UNCHANGED <<stateErrors, lastWrite, alls>>
           ELSE IF stale
           THEN /\ runs' = Remove(runs, k)
                /\ UNCHANGED <<stateErrors, lastWrite, alls>>
           ELSE /\ stateErrors' = [stateErrors EXCEPT ![run.name] = NextMessage(run)]
                /\ lastWrite' = Completed(run, run.i, NextMessage(run))
                /\ runs' = Remove(runs, k)
                /\ alls' = Disturb(alls, 0)
        /\ UNCHANGED <<budget, boundArgs, applied, validationOptions, NODE_ENV, stateValues, formValues,
                       errors, last, lastAll, nEvents>>

\* Variant that writes a copy of the error map of the instantiation,
\* setErrors({...errors, [name]: errorMessage}), instead of a functional
\* update.
SettleFromSnapshot(k) ==
    LET run == runs[k]
    IN  /\ Settles(run)
        /\ IF Continues(run)
           THEN /\ runs' = [runs EXCEPT ![k] = Advance(run)]
                /\ UNCHANGED <<stateErrors, lastWrite, alls>>
           ELSE /\ stateErrors' = [errors EXCEPT ![run.name] = NextMessage(run)]
                /\ lastWrite' = Completed(run, run.i, NextMessage(run))
                /\ runs' = Remove(runs, k)
                /\ alls' = Disturb(alls, 0)
        /\ UNCHANGED <<budget, boundArgs, applied, validationOptions, NODE_ENV, stateValues, formValues,
                       errors, last, lastAll, nEvents>>

\* The validation awaited by pending call k settles and the call continues:
\* it invokes the next validation, or writes the error map and returns.
Settle(k) ==
    LET run == runs[k]
    IN  /\ Settles(run)
        /\ IF Continues(run)
           THEN /\ runs' = [runs EXCEPT ![k] = Advance(run)]
                /\ UNCHANGED <<stateErrors, lastWrite, alls>>
           ELSE /\ stateErrors' = [stateErrors EXCEPT ![run.name] = NextMessage(run)]
                /\ lastWrite' = Completed(run, run.i, NextMessage(run))
                /\ runs' = Remove(runs, k)
                /\ alls' = Disturb(alls, 0)
        /\ UNCHANGED <<budget, boundArgs, applied, validationOptions, NODE_ENV, stateValues, formValues,
                       errors, last, lastAll, nEvents>>

\* The caller renders again: useForm is instantiated with the current maps
\* and its handlers replace the previous ones.
Render ==
    /\ <<formValues, errors>> # <<stateValues, stateErrors>>
    /\ formValues' = stateValues
    /\ errors' = stateErrors
    /\ UNCHANGED <<budget, boundArgs, applied, validationOptions, NODE_ENV, stateValues, stateErrors, runs,
                   alls, last, lastWrite, lastAll, nEvents>>

---------------------------------------------------------------------------
(* Specifications *)

EventValues == Values \cup {Undefined}

InitForm(configs, values, errs) ==
    /\ validationOptions \in configs
    /\ NODE_ENV \in EnvsOf(validationOptions)
    /\ stateValues \in values
    /\ stateErrors \in errs
    /\ formValues = stateValues
    /\ errors = stateErrors
    /\ runs = <<>>
    /\ alls = <<>>
    /\ last = NoEvent
    /\ lastWrite = NoWrite
    /\ lastAll = NoAll

\* A form on its own: no partial is built or called outside the validations.
InitWith(configs, values, errs) ==
    /\ InitForm(configs, values, errs)
    /\ boundArgs = <<>>
    /\ applied = <<>>

\* The forms of the tests: every field empty, or every field filled in.
InitialValues == { [n \in Names |-> v] : v \in Values }

NoErrors == [n \in Names |-> Undefined]

\* The error maps of the tests: empty, or one field already showing an error.
InitialErrors ==
    {NoErrors} \cup { [NoErrors EXCEPT ![n] = MessageAt(1)] :
                        n \in {"startDate", "endDate"} }

Init ==
    /\ InitWith(EngineConfigs, InitialValues, InitialErrors)
    /\ nEvents = 0
    /\ budget = MaxEvents

Change == \E t \in Targets, v \in EventValues : handleChange(t, v)

DropdownChange == \E t \in Targets, v \in EventValues : handleDropdownChange(t, v)

Blur == \E t \in Targets, v \in EventValues : handleBlur(t, v)

CustomChange == \E n \in Names, v \in Values : handleCustomChange(n, v)

DatePickerChange ==
    \E n \in Names, d \in Details \cup {Undefined} : handleDatePickerChange(n, d)

SettleRun == \E k \in DOMAIN runs : Settle(k)

SettleAll == \E j \in DOMAIN alls : SettleInAll(j)

Resume == \E j \in DOMAIN alls : ResumeAll(j)

Next ==
    \/ Change
    \/ DropdownChange
    \/ Blur
    \/ CustomChange
    \/ DatePickerChange
    \/ validateAll
    \/ handleSubmit
    \/ SettleRun
    \/ SettleAll
    \/ Resume
    \/ Render

Spec == Init /\ [][Next]_vars

\* The validation runner on its own: one handler call on a one-field form,
\* for every validation sequence up to MaxValidations.
InitRunner ==
    /\ InitWith(RunnerConfigs, { [n \in Names |-> v] : v \in EventValues }, {NoErrors})
    /\ nEvents = MaxEvents - 1
    /\ budget = MaxEvents

SpecRunner == InitRunner /\ [][Next]_vars

\* One field with a two-step validation sequence.
RaceConfig == << Field("startDate", RequiredAndShort, <<>>, Undefined) >>

\* Handler calls that follow one another while validations are pending:
\* one call more than in Spec.  The event loop runs the continuation of
\* every validate() call whose awaited validation has settled, and the
\* modelled validations do settle: weak fairness of SettleRun.
InitRace ==
    /\ InitWith({RaceConfig}, InitialValues, {NoErrors})
    /\ nEvents = 0
    /\ budget = MaxEvents + 1

SpecRace == InitRace /\ [][Next]_vars /\ WF_vars(SettleRun)

\* A field whose second validation returns a promise that never settles,
\* declared after a field whose validations do settle.
HangConfig ==
    << Field("endDate", Required, <<>>, Undefined),
       Field("startDate",
             << Validation(1, <<"isRequired", "given">>),
                Validation(2, <<"hangs", "given">>),
                Validation(3, <<"hasMaxLength(0)", "given">>) >>,
             <<>>, Undefined) >>

InitHang ==
    /\ InitWith({HangConfig}, InitialValues, InitialErrors)
    /\ nEvents = 0
    /\ budget = MaxEvents + 1

SpecHang == InitHang /\ [][Next]_vars

\* The date range of the demo application: each date must be given when the
\* other is, through a field-aware validator, and lists the other as related.
PairedConfig ==
    << Field("startDate",
             <<Validation(1, <<"areDateFieldsPaired(_, @endDate)", "given">>)>>,
             <<"endDate">>, Undefined),
       Field("endDate",
             <<Validation(1, <<"areDateFieldsPaired(@startDate, _)", "given">>)>>,
             <<"startDate">>, Undefined) >>

InitPaired ==
    /\ InitWith({PairedConfig}, InitialValues, {NoErrors})
    /\ nEvents = 0
    /\ budget = MaxEvents

SpecPaired == InitPaired /\ [][Next]_vars

---------------------------------------------------------------------------
(* The utilities on their own: a partial is built from a bound argument     *)
(* list and called; areDateFieldsPaired is applied to two values.           *)

\* Bound arguments: the placeholder, a constant, a field reference.
BoundValues == {partialFn_, "5", "@endDate"}

CallValues == {"3", "9"}

SeqsUpTo(S, n) == UNION { [1..m -> S] : m \in 0..n }

\* Two value maps that differ in the referenced field.
Snapshots == { [n \in Names |-> IF n = "endDate" THEN v ELSE "3"] : v \in {"5", "9"} }

\* Values of a date field: absent ones, blank ones, a string, a Date.
DateValues == {Null, Undefined, "", " ", "   ", "2023-01-01", DateOf("2023-01-01")}

\* The record of one call.
Applied(via, bound, callArgs, formValuesArg, resultArgs, result) ==
    [via |-> via, bound |-> bound, callArgs |-> callArgs,
     formValues |-> formValuesArg, resultArgs |-> resultArgs, result |-> result]

Engine ==
    <<validationOptions, NODE_ENV, stateValues, stateErrors, formValues, errors,
      runs, alls, last, lastWrite, lastAll, nEvents, budget>>

\* partialFn(f, ...boundArgs)(...callArgs)
CallPartial ==
    \E callArgs \in SeqsUpTo(CallValues, MaxCallArgs) :
        /\ Len(applied) < MaxCalls
        /\ applied' = Append(applied,
                Applied("partialFn", boundArgs, callArgs, <<>>,
                        partialFn(boundArgs, callArgs), "none"))
        /\ boundArgs' = BoundAfterCall(boundArgs, callArgs)
        /\ UNCHANGED Engine

\* partialFnWithFields(f, ...boundArgs)(value, formValues)
CallPartialWithFields ==
    \E value \in CallValues, formValuesArg \in SeqsUpTo(Snapshots, 1) :
        /\ Len(applied) < MaxCalls
        /\ applied' = Append(applied,
                Applied("partialFnWithFields", boundArgs, <<value>>, formValuesArg,
                        partialFnWithFields(boundArgs, value, formValuesArg), "none"))
        /\ boundArgs' = BoundAfterCall(boundArgs, <<value>>)
        /\ UNCHANGED Engine

\* areDateFieldsPaired(date1, date2), applied directly: no partial is built.
CallAreDateFieldsPaired ==
    \E date1 \in DateValues, date2 \in DateValues :
        /\ boundArgs = <<>>
        /\ Len(applied) < MaxCalls
        /\ applied' = Append(applied,
                Applied("areDateFieldsPaired", <<>>, <<date1, date2>>, <<>>,
                        <<date1, date2>>,
                        IF areDateFieldsPaired(date1, date2) THEN "true" ELSE "false"))
        /\ UNCHANGED <<boundArgs, Engine>>

InitUtilities ==
    /\ InitForm({PlainConfig}, {[n \in Names |-> ""]}, {NoErrors})
    /\ boundArgs \in SeqsUpTo(BoundValues, MaxBound)
    /\ applied = <<>>
    /\ nEvents = 0
    /\ budget = 0

NextUtilities ==
    \/ CallPartial
    \/ CallPartialWithFields
    \/ CallAreDateFieldsPaired

SpecUtilities == InitUtilities /\ [][NextUtilities]_vars

---------------------------------------------------------------------------
(* Properties of the validation runner *)

Max(S) == CHOOSE i \in S : \A j \in S : j <= i

OutcomeAt(vs, value, i) == IsValidOutcome(vs[i].isValid, value)

\* The validations of vs that do not pass on value.
NotPassing(vs, value) == { i \in DOMAIN vs : OutcomeAt(vs, value, i) # "true" }

Throwing(vs, value) == { i \in DOMAIN vs : OutcomeAt(vs, value, i) = "throw" }

\* The message a validation leaves when it does not pass.
MessageOf(validation, outcome) ==
    IF outcome = "throw" /\ validation.errorMessage \in {"", Undefined}
    THEN "Validation failed"
    ELSE validation.errorMessage

\* Last failure wins.
LastFailureMessage(vs, value) ==
    IF NotPassing(vs, value) = {} THEN ""
    ELSE LET i == Max(NotPassing(vs, value))
         IN  MessageOf(vs[i], OutcomeAt(vs, value, i))

HasCompleted == lastWrite.ev > 0

\* C1: a completed validation run has invoked every validation of the
\* effective field's sequence, in declared order; the error it wrote is the
\* empty string when every validation passed, and the errorMessage of the
\* last validation that did not pass when that one returned false.
C1_LastFailureWins ==
    HasCompleted =>
        LET vs == Validations(lastWrite.name)
            failed == NotPassing(vs, lastWrite.value)
        IN  /\ lastWrite.invoked = Len(vs)
            /\ failed = {} => lastWrite.errorMessage = ""
            /\ (failed # {} /\ OutcomeAt(vs, lastWrite.value, Max(failed)) = "false")
                    => lastWrite.errorMessage = vs[Max(failed)].errorMessage

\* [fail m1, pass, fail m3] has run to completion and m3 was written.
C1_Witness ==
    /\ HasCompleted
    /\ Len(Validations(lastWrite.name)) = 3
    /\ NotPassing(Validations(lastWrite.name), lastWrite.value) = {1, 3}
    /\ Throwing(Validations(lastWrite.name), lastWrite.value) = {}
    /\ lastWrite.invoked = 3
    /\ lastWrite.errorMessage = MessageAt(3)
    /\ stateErrors[lastWrite.name] = MessageAt(3)

---------------------------------------------------------------------------
(* Properties of the orchestration engine *)

IsFieldEvent(e) == e.op \in {"handleChange", "handleDropdownChange", "handleBlur"}

FieldOf(e) == getFieldName(e.target)

\* Fields that declare nestedFieldOf.
Auxiliary == { a \in Configured : Truthy(Option(a).nestedFieldOf) }

OnPrimary(e) ==
    IsFieldEvent(e) /\ FieldOf(e) \in Configured /\ FieldOf(e) \notin Auxiliary

Related(f) == { Option(f).relatedFields[j] : j \in DOMAIN Option(f).relatedFields }

\* The error-map keys handler call e has written or has a pending run for.
KeysOf(e) ==
    e.wrote \cup { runs[k].name : k \in { j \in DOMAIN runs : runs[j].ev = e.serial } }

HadError(r) == r \in last.prior

\* C2: a change or blur on a field f without nestedFieldOf calls validate for
\* f and then for exactly the relatedFields of f whose entry in the error map
\* is non-empty (absent counts as empty), in listed order; a related field
\* without prior error gets no write and no pending run from the event.
C2_RelatedFanOut ==
    OnPrimary(last) =>
        /\ last.calls = <<FieldOf(last)>> \o
                            SelectSeq(Option(FieldOf(last)).relatedFields, HadError)
        /\ \A r \in Related(FieldOf(last)) \ last.prior : r \notin KeysOf(last)

\* startDate was changed while endDate, a related field without prior
\* error, holds a value that fails its validations: endDate is left alone.
C2_Witness ==
    /\ OnPrimary(last)
    /\ last.op = "handleChange"
    /\ last.merged # <<>>
    /\ \E r \in Related(FieldOf(last)) :
          /\ r \notin last.prior
          /\ r \in Configured
          /\ LastFailureMessage(Validations(r), stateValues[r]) # ""
          /\ ~Truthy(stateErrors[r])
    /\ last.calls = <<FieldOf(last)>>

\* C3: no validate call ever writes, or is pending to write, under the name
\* of a field that declares nestedFieldOf; the calls of a change or blur on
\* such a field write only under its nestedFieldOf target.
C3_NestedRedirection ==
    /\ \A a \in Auxiliary :
          /\ a \notin last.wrote
          /\ lastWrite.name # a
          /\ \A k \in DOMAIN runs : runs[k].name # a
          /\ \A j \in DOMAIN alls : alls[j].run.name # a
    /\ (IsFieldEvent(last) /\ FieldOf(last) \in Auxiliary) =>
            KeysOf(last) \subseteq {Option(FieldOf(last)).nestedFieldOf}

\* A change of the auxiliary input has written an error under the main field.
C3_Witness ==
    /\ last.op = "handleChange"
    /\ FieldOf(last) \in Auxiliary
    /\ last.merged # <<>>
    /\ lastWrite.ev = last.serial
    /\ lastWrite.pname = FieldOf(last)
    /\ lastWrite.name = Option(FieldOf(last)).nestedFieldOf
    /\ lastWrite.errorMessage = MessageAt(1)
    /\ stateErrors[lastWrite.name] = MessageAt(1)
    /\ stateErrors[FieldOf(last)] = Undefined

HasFinishedAll == lastAll.ev > 0

\* C4: a finished validateAll has run a validation for every configured
\* field, returns true exactly when none of them reported invalid, a field
\* reported invalid exactly when its validations leave a non-empty error,
\* and, no other call having written the error map meanwhile, the entry of
\* every field is that error (the empty string for a passing field).
C4_ValidateAll ==
    HasFinishedAll =>
        /\ lastAll.visited = Len(validationOptions)
        /\ lastAll.result <=> lastAll.invalid = {}
        /\ \A i \in DOMAIN validationOptions :
              LET p == validationOptions[i].name
                  e == NameToValidate(p)
                  expected == LastFailureMessage(Validations(e), lastAll.values[e])
              IN  /\ p \in lastAll.invalid <=> expected # ""
                  /\ lastAll.clean => lastAll.errors[e] = expected

\* The first field failed, a later field passed and had its entry cleared.
C4_Witness ==
    /\ HasFinishedAll
    /\ lastAll.clean
    /\ ~lastAll.result
    /\ validationOptions[1].name \in lastAll.invalid
    /\ \E i \in DOMAIN validationOptions :
          /\ i > 1
          /\ validationOptions[i].name \notin lastAll.invalid
          /\ stateErrors[NameToValidate(validationOptions[i].name)] = ""

\* C5 as claimed: a change event whose value is undefined requests no value
\* update, calls no validation and writes nothing to the error map.
C5_UndefinedValueIsNoOp ==
    (last.op \in {"handleChange", "handleDropdownChange"} /\ last.value = Undefined) =>
        /\ last.merged = <<>>
        /\ last.calls = <<>>
        /\ last.wrote = {}
        /\ \A k \in DOMAIN runs : runs[k].ev # last.serial

Unnamed(e) == IsFieldEvent(e) /\ FieldOf(e) = Undefined

\* C6: a change or blur whose target yields no name raises no fault, leaves
\* the value map and the error map as they are, starts no validation and
\* emits the diagnostic only.
C6_UnnamedEventIsNoOp ==
    [][ (last'.serial # last.serial /\ Unnamed(last')) =>
            /\ last'.fault = "none"
            /\ last'.diagnostics = {"You must specify a name for this form field."}
            /\ last'.calls = <<>>
            /\ stateValues' = stateValues
            /\ stateErrors' = stateErrors
            /\ runs' = runs
            /\ alls' = alls ]_vars

C6_Witness ==
    /\ last.op = "handleChange"
    /\ last.target = Target(Null, Null)
    /\ last.value = "x"
    /\ last.fault = "none"

\* A configured field that declares both nestedFieldOf and relatedFields.
Exclusive(name) ==
    /\ name \in Configured
    /\ Truthy(Option(name).nestedFieldOf)
    /\ Len(Option(name).relatedFields) > 0

\* C8: outside production every change and every blur on a field that
\* declares both nestedFieldOf and a non-empty relatedFields throws.
C8_ExclusivityInDevelopment ==
    (IsFieldEvent(last) /\ Exclusive(FieldOf(last)) /\ NODE_ENV # "production") =>
        last.fault = "Error"

C8_Witness ==
    /\ last.op = "handleBlur"
    /\ Exclusive(FieldOf(last))
    /\ NODE_ENV = "development"
    /\ last.fault = "Error"

\* C9 as claimed: such a change or blur throws in every build mode.
C9_ExclusivityUnconditional ==
    (IsFieldEvent(last) /\ Exclusive(FieldOf(last))) => last.fault = "Error"

\* C9 (amended): such a change or blur throws exactly when the build mode is
\* not production; in production it throws nothing and goes on as for a
\* nested field: after the field's own call it validates the nestedFieldOf
\* target and none of the relatedFields.
C9_ExclusivityByMode ==
    (IsFieldEvent(last) /\ Exclusive(FieldOf(last))) =>
        /\ last.fault = "Error" <=> NODE_ENV # "production"
        /\ NODE_ENV = "production" =>
              /\ last.fault = "none"
              /\ last.calls = <<FieldOf(last), Option(FieldOf(last)).nestedFieldOf>>

C9_Witness ==
    /\ last.op = "handleChange"
    /\ Exclusive(FieldOf(last))
    /\ NODE_ENV = "production"
    /\ last.fault = "none"
    /\ last.calls = <<FieldOf(last), Option(FieldOf(last)).nestedFieldOf>>

ChangeOnPrimary(e) ==
    e.op = "handleChange" /\ OnPrimary(e) /\ e.value # Undefined

\* The state after a change of primary field f to v: one update was
\* requested, f := v, and the call for f validates v.
C10_Called ==
    ChangeOnPrimary(last) =>
        /\ last.merged = <<Update(FieldOf(last), last.value)>>
        /\ last.calls # <<>>
        /\ last.calls[1] = FieldOf(last)
        /\ Validations(FieldOf(last)) = <<>> => FieldOf(last) \in last.wrote
        /\ \A k \in DOMAIN runs :
              (runs[k].ev = last.serial /\ ~runs[k].fan) =>
                  /\ runs[k].name = FieldOf(last)
                  /\ runs[k].value = last.value

\* The step of such a change sets values[f] = v and nothing else; the step
\* in which its call for f completes leaves the last-failure-wins result of
\* f's validations on v in errors[f].
C10_Step ==
    /\ (last'.serial # last.serial /\ ChangeOnPrimary(last')) =>
            stateValues' = [stateValues EXCEPT ![FieldOf(last')] = last'.value]
    /\ ( /\ lastWrite' # lastWrite
         /\ lastWrite'.op = "handleChange"
         /\ ~lastWrite'.fan
         /\ lastWrite'.pname \notin Auxiliary ) =>
            stateErrors'[lastWrite'.pname] =
                LastFailureMessage(Validations(lastWrite'.pname), lastWrite'.value)

\* C10: handleChange on a configured field f without nestedFieldOf, with a
\* defined value v, requests the merge values[f] = v, which leaves every
\* other key as it is, and validates f against v: when its call completes,
\* errors[f] is the last-failure-wins result of f's validations on v.
C10_ChangeValidatesNewValue == []C10_Called /\ [][C10_Step]_vars

\* A change to a valid value, not the stored one, cleared the field's error.
C10_Witness ==
    /\ ChangeOnPrimary(last)
    /\ FieldOf(last) \in last.prior
    /\ formValues[FieldOf(last)] # last.value
    /\ lastWrite.ev = last.serial
    /\ ~lastWrite.fan
    /\ lastWrite.name = FieldOf(last)
    /\ lastWrite.invoked > 0
    /\ lastWrite.value = last.value
    /\ lastWrite.errorMessage = ""
    /\ stateErrors[FieldOf(last)] = ""
    /\ stateValues[FieldOf(last)] = last.value

---------------------------------------------------------------------------
(* Blur *)

BlurOnPrimary(e) == e.op = "handleBlur" /\ OnPrimary(e)

\* The run of the triggering field of a completed blur.
BlurCompleted ==
    /\ HasCompleted
    /\ lastWrite.op = "handleBlur"
    /\ ~lastWrite.fan
    /\ lastWrite.pname \notin Auxiliary

\* C11 as claimed: the error a blur on f has written is the result of f's
\* validations on the value stored for f in the value map.
C11_BlurValidatesStoredValue ==
    BlurCompleted =>
        lastWrite.errorMessage =
            LastFailureMessage(Validations(lastWrite.name), stateValues[lastWrite.name])

\* The step of a blur on f leaves the value map alone and calls validate for
\* f with the value the event carries, the stored value of the handler's
\* value map standing in only for an undefined one; the step in which that
\* call completes writes the result of f's validations on that value.
C11_Step ==
    /\ (last'.serial # last.serial /\ BlurOnPrimary(last')) =>
            /\ stateValues' = stateValues
            /\ last'.calls # <<>>
            /\ last'.calls[1] = FieldOf(last')
            /\ Validations(FieldOf(last')) = <<>> => FieldOf(last') \in last'.wrote
            /\ Validations(FieldOf(last')) # <<>> =>
                    \E k \in DOMAIN runs' : runs'[k].ev = last'.serial /\ ~runs'[k].fan
            /\ \A k \in DOMAIN runs' :
                  (runs'[k].ev = last'.serial /\ ~runs'[k].fan) =>
                      /\ runs'[k].name = FieldOf(last')
                      /\ runs'[k].value = IF last'.value # Undefined THEN last'.value
                                          ELSE formValues[FieldOf(last')]
    /\ (lastWrite' # lastWrite /\ BlurCompleted') =>
            stateErrors'[lastWrite'.name] =
                LastFailureMessage(Validations(lastWrite'.name), lastWrite'.value)

\* C11 (amended): handleBlur validates the resolved field against the value
\* carried by the blur event, and against the stored value only when the
\* event's value is undefined.
C11_BlurValidatesEventValue == [][C11_Step]_vars

\* A blur carrying "x" on a required field whose stored value is empty
\* has cleared the field's error.
C11_Witness ==
    /\ BlurOnPrimary(last)
    /\ BlurCompleted
    /\ lastWrite.ev = last.serial
    /\ last.value = "x"
    /\ stateValues[FieldOf(last)] = ""
    /\ lastWrite.name = FieldOf(last)
    /\ lastWrite.value = "x"
    /\ LastFailureMessage(Validations(lastWrite.name), "") # ""
    /\ lastWrite.errorMessage = ""
    /\ stateErrors[lastWrite.name] = ""

---------------------------------------------------------------------------
(* Ordering and number of the writes of one event *)

\* The call for the triggering field of handler call e is still running.
TriggerPending(e) ==
    \E k \in DOMAIN runs : runs[k].ev = e.serial /\ ~runs[k].fan

\* C12 as claimed: while the run of the triggering field of a change or blur
\* has not yet written its error, no fan-out call has been made (so no
\* fan-out run is pending and no fan-out write has landed).
C12_FanOutAfterTrigger ==
    (IsFieldEvent(last) /\ TriggerPending(last)) => Len(last.calls) <= 1

\* C13 as claimed: two successive error-map writes that belong to the same
\* change or blur go to different keys.
C13_OneWritePerKey ==
    [][ ( /\ lastWrite' # lastWrite
          /\ lastWrite.ev > 0
          /\ lastWrite'.ev = lastWrite.ev
          /\ lastWrite'.op \in {"handleChange", "handleDropdownChange", "handleBlur"} )
            => lastWrite'.name # lastWrite.name ]_vars

---------------------------------------------------------------------------
(* Concurrent runs for one field *)

PendingFor(f) == { k \in DOMAIN runs : runs[k].name = f }

Racing(f) == Cardinality(PendingFor(f)) >= 2

Quiet(f) == PendingFor(f) = {}

\* The error map holds what the most recent write put there.
C14_LastWriteStands ==
    HasCompleted => stateErrors[lastWrite.name] = lastWrite.errorMessage

\* A pending call goes away only by writing its own result, whatever other
\* calls are pending for the same field and whatever has been written since
\* it started.
C14_Step ==
    Len(runs') < Len(runs) =>
        \E k \in DOMAIN runs :
            /\ runs' = Remove(runs, k)
            /\ lastWrite'.ev = runs[k].ev
            /\ lastWrite'.name = runs[k].name
            /\ lastWrite'.value = runs[k].value
            /\ lastWrite'.errorMessage =
                  LastFailureMessage(Validations(runs[k].name), runs[k].value)
            /\ stateErrors' =
                  [stateErrors EXCEPT ![runs[k].name] = lastWrite'.errorMessage]

\* C14: when two runs for one field are pending together, both come to
\* write (their validations settling), each writes its own result without
\* any guard, and the error map holds the result of the one that wrote last.
C14_AcceptedRace ==
    /\ []C14_LastWriteStands
    /\ [][C14_Step]_vars
    /\ \A f \in Names : Racing(f) ~> Quiet(f)

\* The reachable outcome: the run of an earlier change wrote after the run
\* of the latest change, and the error of the field is not the one its
\* current value gives.
C14_Witness ==
    /\ ChangeOnPrimary(last)
    /\ Validations(FieldOf(last)) # <<>>
    /\ Quiet(FieldOf(last))
    /\ alls = <<>>
    /\ stateValues[FieldOf(last)] = last.value
    /\ lastWrite.name = FieldOf(last)
    /\ lastWrite.op = "handleChange"
    /\ lastWrite.ev > 0
    /\ lastWrite.ev < last.serial
    /\ stateErrors[FieldOf(last)] = lastWrite.errorMessage
    /\ stateErrors[FieldOf(last)] #
          LastFailureMessage(Validations(FieldOf(last)), stateValues[FieldOf(last)])

---------------------------------------------------------------------------
(* Sequencing inside one run *)

\* A pending run awaits one of its validations; those before it have settled.
C15_AwaitsOne ==
    \A k \in DOMAIN runs :
        /\ runs[k].i >= 1
        /\ runs[k].i <= Len(Validations(runs[k].name))

\* A step that starts runs starts them at their first validation; a step
\* that continues a run moves it from validation i to validation i + 1 and
\* writes nothing; a step that ends a run ends one that awaited its last
\* validation, and only such a step or the synchronous part of a handler
\* call writes the error map.
C15_Step ==
    /\ Len(runs') > Len(runs) =>
            \A k \in DOMAIN runs' : IF k \in DOMAIN runs THEN runs'[k] = runs[k]
                                    ELSE runs'[k].i = 1
    /\ (Len(runs') = Len(runs) /\ runs' # runs) =>
            /\ \E k \in DOMAIN runs :
                  /\ runs'[k].i = runs[k].i + 1
                  /\ \A j \in DOMAIN runs \ {k} : runs'[j] = runs[j]
            /\ stateErrors' = stateErrors
            /\ lastWrite' = lastWrite
    /\ Len(runs') < Len(runs) =>
            \E k \in DOMAIN runs :
                /\ runs' = Remove(runs, k)
                /\ runs[k].i = Len(Validations(runs[k].name))
                /\ lastWrite'.invoked = Len(Validations(runs[k].name))
    /\ (stateErrors' # stateErrors /\ alls = <<>> /\ alls' = <<>>) =>
            \/ Len(runs') < Len(runs)
            \/ last'.serial # last.serial

\* C15: a validation run awaits its validations one at a time, validation
\* i + 1 being invoked only when validation i has settled, and writes the
\* error map once, after the last of them has settled.
C15_OneAtATime == []C15_AwaitsOne /\ [][C15_Step]_vars

\* The first of three validations failed and the second is awaited: the
\* third has not been invoked and nothing has been written.
C15_Witness ==
    \E k \in DOMAIN runs :
        /\ Len(Validations(runs[k].name)) = 3
        /\ runs[k].i = 2
        /\ runs[k].errorMessage = MessageAt(1)
        /\ stateErrors[runs[k].name] = Undefined
        /\ lastWrite = NoWrite

---------------------------------------------------------------------------
(* Sequencing of validate-all *)

\* A validateAll call is at field k of the configuration; the validate call
\* it awaits is the one for that field, made without value override: it
\* validates the value its value map holds for the effective field.
C16_AtField ==
    \A j \in DOMAIN alls :
        /\ alls[j].k \in DOMAIN validationOptions
        /\ alls[j].run.pname = validationOptions[alls[j].k].name
        /\ alls[j].run.name = NameToValidate(validationOptions[alls[j].k].name)
        /\ alls[j].ret = "pending" =>
              alls[j].run.value = alls[j].values[alls[j].run.name]

\* A validateAll call starts at the first field, goes from field k to field
\* k + 1 only when its call for field k has returned, and returns only
\* when its call for the last field has returned.
C16_Step ==
    /\ Len(alls') > Len(alls) => alls'[Len(alls')].k = 1
    /\ Len(alls') = Len(alls) =>
            \A j \in DOMAIN alls :
                \/ alls'[j].k = alls[j].k
                \/ /\ alls'[j].k = alls[j].k + 1
                   /\ alls[j].ret # "pending"
                   /\ alls[j].clean =>
                         stateErrors[alls[j].run.name] =
                             LastFailureMessage(Validations(alls[j].run.name),
                                                alls[j].values[alls[j].run.name])
    /\ Len(alls') < Len(alls) =>
            \E j \in DOMAIN alls :
                /\ alls' = Remove(alls, j)
                /\ alls[j].k = Len(validationOptions)
                /\ alls[j].ret # "pending"
                /\ lastAll'.ev = alls[j].ev
                /\ lastAll'.visited = Len(validationOptions)

\* What a finished validateAll leaves, no other call having written the
\* error map meanwhile: for every field the result of the validations of
\* its effective field on the stored value.
C16_FinalErrors ==
    (HasFinishedAll /\ lastAll.clean) =>
        \A i \in DOMAIN validationOptions :
            lastAll.errors[NameToValidate(validationOptions[i].name)] =
                LastFailureMessage(
                    Validations(NameToValidate(validationOptions[i].name)),
                    lastAll.values[NameToValidate(validationOptions[i].name)])

\* C16: validateAll visits the configured fields in declared order, one run
\* at a time, each run validating the stored value of its field, and
\* resolves only after the run of the last field has finished, the error
\* map then holding the outcome of every field.
C16_ValidateAllInOrder ==
    []C16_AtField /\ []C16_FinalErrors /\ [][C16_Step]_vars

\* A validateAll over three fields has finished; its last write was that of
\* the run for the last field, which invoked that field's validations.
C16_Witness ==
    /\ HasFinishedAll
    /\ lastAll.op = "validateAll"
    /\ lastAll.clean
    /\ Len(validationOptions) = 3
    /\ lastAll.visited = 3
    /\ lastWrite.ev = lastAll.ev
    /\ lastWrite.pname = validationOptions[3].name
    /\ lastWrite.invoked > 0
    /\ lastWrite.errorMessage # ""
    /\ stateErrors[validationOptions[1].name] # Undefined
    /\ stateErrors[validationOptions[2].name] # Undefined

---------------------------------------------------------------------------
(* A validation that never settles *)

\* The run awaits a validation whose promise never settles.
Hung(run) == Pending(run).isValid = "hangs"

HungAll(proc) == proc.ret = "pending" /\ Hung(proc.run)

\* The validations of field name that would hang on value.
Hanging(name, value) ==
    { i \in DOMAIN Validations(name) : Validations(name)[i].isValid = "hangs" }

\* No completed run went past a validation that never settles, and no
\* validateAll that had such a run to await has returned.
C17_NeverPast ==
    /\ HasCompleted => Hanging(lastWrite.name, lastWrite.value) = {}
    /\ HasFinishedAll =>
            \A i \in DOMAIN validationOptions :
                Hanging(NameToValidate(validationOptions[i].name), Undefined) = {}

\* A hung run stays as it is: it invokes no later validation and writes
\* nothing; a validateAll or handleSubmit awaiting it stays at its field;
\* an entry of the error map changes only through the write of a run that
\* got to the end of its validations.
C17_Step ==
    /\ \A k \in DOMAIN runs :
          Hung(runs[k]) => \E j \in DOMAIN runs' : runs'[j] = runs[k]
    /\ \A k \in DOMAIN alls :
          HungAll(alls[k]) =>
              \E j \in DOMAIN alls' :
                  /\ alls'[j].ev = alls[k].ev
                  /\ alls'[j].k = alls[k].k
                  /\ alls'[j].run = alls[k].run
                  /\ alls'[j].ret = "pending"
    /\ \A f \in Names :
          stateErrors'[f] # stateErrors[f] =>
              /\ lastWrite'.name = f
              /\ lastWrite'.invoked = Len(Validations(f))
              /\ Hanging(f, lastWrite'.value) = {}

\* C17: there is no timeout.  A run awaiting a validation that never
\* settles never writes and never invokes its later validations, the entry
\* of its field stays as it is unless another run writes it, and a
\* validateAll or handleSubmit awaiting the run never returns.
C17_NoTimeout == []C17_NeverPast /\ [][C17_Step]_vars

\* handleSubmit has validated the first field and is stuck at the second:
\* the value there is one its first validation accepts, the second
\* validation hangs, and the error shown before still stands.
C17_Witness ==
    \E j \in DOMAIN alls :
        /\ alls[j].op = "handleSubmit"
        /\ alls[j].k = 2
        /\ HungAll(alls[j])
        /\ alls[j].run.i = 2
        /\ alls[j].run.errorMessage = ""
        /\ stateValues[alls[j].run.name] = "x"
        /\ stateErrors[alls[j].run.name] = MessageAt(1)
        /\ stateErrors[validationOptions[1].name] = ""
        /\ lastAll = NoAll

---------------------------------------------------------------------------
(* Submit *)

\* The validateAll calls that handler call e has made.
AllsOf(e) == { j \in DOMAIN alls : alls[j].ev = e.serial }

\* The boolean a validateAll over the value map `values` has to produce.
FormIsValid(values) ==
    \A i \in DOMAIN validationOptions :
        LastFailureMessage(Validations(NameToValidate(validationOptions[i].name)),
                           values[NameToValidate(validationOptions[i].name)]) = ""

\* After handleSubmit: the default action was suppressed, and before the
\* first validation was started; no value update was requested; at most
\* one validateAll is running for it.  A finished handleSubmit resolved to
\* the boolean of that validateAll.
C18_Submitted ==
    /\ last.op = "handleSubmit" =>
            /\ last.defaultPrevented
            /\ last.steps # <<>>
            /\ last.steps[1] = "preventDefault"
            /\ \A i \in DOMAIN last.steps : i > 1 => last.steps[i] = "validate"
            /\ last.calls = <<validationOptions[1].name>>
            /\ last.merged = <<>>
            /\ last.fault = "none"
            /\ Cardinality(AllsOf(last)) <= 1
    /\ (HasFinishedAll /\ lastAll.op = "handleSubmit") =>
            /\ lastAll.visited = Len(validationOptions)
            /\ lastAll.result <=> lastAll.invalid = {}
            /\ lastAll.result <=> FormIsValid(lastAll.values)

\* The step of handleSubmit starts one validateAll and leaves the value map
\* alone; so does every later step made on its behalf: the value map
\* changes only in the step of a change handler.
C18_Step ==
    /\ (last'.serial # last.serial /\ last'.op = "handleSubmit") =>
            /\ stateValues' = stateValues
            /\ Len(alls') = Len(alls) + 1
            /\ alls'[Len(alls')].ev = last'.serial
            /\ alls'[Len(alls')].op = "handleSubmit"
            /\ \A j \in DOMAIN alls : alls'[j].ev = alls[j].ev
    /\ stateValues' # stateValues =>
            /\ last'.serial # last.serial
            /\ last'.op \in {"handleChange", "handleDropdownChange",
                             "handleCustomChange", "handleDatePickerChange"}
    /\ lastAll' # lastAll =>
            \E j \in DOMAIN alls :
                /\ alls[j].ev = lastAll'.ev
                /\ alls[j].op = lastAll'.op
                /\ alls' = Remove(alls, j)

\* C18: handleSubmit suppresses the default action of its event before any
\* validation starts, performs exactly one validateAll, resolves to the
\* boolean that validateAll produced, and never changes the value map.
C18_Submit == []C18_Submitted /\ [][C18_Step]_vars

\* A handleSubmit on a valid form has resolved to true.
C18_Witness ==
    /\ last.op = "handleSubmit"
    /\ last.defaultPrevented
    /\ HasFinishedAll
    /\ lastAll.op = "handleSubmit"
    /\ lastAll.ev = last.serial
    /\ lastAll.result
    /\ lastAll.values = stateValues
    /\ \E i \in DOMAIN validationOptions : validationOptions[i].validations # <<>>
    /\ AllsOf(last) = {}

---------------------------------------------------------------------------
(* Custom value set and date picker *)

\* The step of handler call op: a handler call is the only step that
\* changes the record of the most recent call.
StepOf(op) == last'.serial # last.serial /\ last'.op = op

\* The step starts no validation and leaves the error map alone.
NoValidation ==
    /\ last'.calls = <<>>
    /\ last'.wrote = {}
    /\ last'.fault = "none"
    /\ stateErrors' = stateErrors
    /\ runs' = runs
    /\ alls' = alls
    /\ lastWrite' = lastWrite

\* C19: handleCustomChange(field, value) requests the merge
\* values[field] = value, which leaves every other key as it is; it starts
\* no validation run, does no fan-out and leaves the error map unchanged.
C19_CustomChange ==
    [][ StepOf("handleCustomChange") =>
            /\ last'.merged = <<Update(last'.target.name, last'.value)>>
            /\ stateValues' =
                  [stateValues EXCEPT ![last'.target.name] = last'.value]
            /\ NoValidation ]_vars

\* A required field that has a related field showing an error was set to
\* the empty string: no error appeared and nothing is pending.
C19_Witness ==
    /\ last.op = "handleCustomChange"
    /\ last.value = ""
    /\ formValues[last.target.name] = "x"
    /\ stateValues[last.target.name] = ""
    /\ last.target.name \in Configured
    /\ LastFailureMessage(Validations(last.target.name), "") # ""
    /\ \E r \in Related(last.target.name) : Truthy(stateErrors[r])
    /\ stateErrors[last.target.name] = Undefined
    /\ runs = <<>>
    /\ alls = <<>>

\* C20: handleDatePickerChange does nothing when its event has no detail:
\* no value update, no validation, no fault; with a detail it requests the
\* merge of the date made from it under the target's name, as
\* handleCustomChange does, and neither validates nor writes the error map.
C20_DatePickerChange ==
    [][ StepOf("handleDatePickerChange") =>
            /\ NoValidation
            /\ IF Truthy(last'.value)
               THEN /\ last'.merged =
                          <<Update(last'.target.name, DateOf(last'.value))>>
                    /\ stateValues' =
                          [stateValues EXCEPT ![last'.target.name] = DateOf(last'.value)]
               ELSE /\ last'.merged = <<>>
                    /\ stateValues' = stateValues ]_vars

\* A date was picked for a required field: the value map holds the date,
\* the error the field showed is still there.
C20_Witness ==
    /\ last.op = "handleDatePickerChange"
    /\ last.value \in Details
    /\ stateValues[last.target.name] = DateOf(last.value)
    /\ formValues[last.target.name] # DateOf(last.value)
    /\ last.target.name \in Configured
    /\ Validations(last.target.name) # <<>>
    /\ stateErrors[last.target.name] = MessageAt(1)
    /\ runs = <<>>
    /\ alls = <<>>

---------------------------------------------------------------------------
(* Dropdown change *)

\* A run or a completed run, but for the handler that started it.
Anonymous(run) == [run EXCEPT !.op = "any"]

AnonymousRuns(pending) == [k \in DOMAIN pending |-> Anonymous(pending[k])]

\* C21: a step of handleDropdownChange does what handleChange does for the
\* same event from the same value map, error map and configuration: the
\* same value update request, the same validate calls in the same order
\* with the same runs left pending, the same error-map writes and the same
\* fault.
C21_DropdownIsChange ==
    [][ StepOf("handleDropdownChange") =>
            LET change == ChangeEffects("handleChange", last'.target, last'.value)
            IN  /\ last'.merged = setValueFromChangeEvent(last'.target, last'.value)
                /\ stateValues' = Merge(stateValues, last'.merged)
                /\ last'.calls = change.calls
                /\ last'.rejected = change.rejected
                /\ last'.wrote = change.wrote
                /\ last'.fault = change.fault
                /\ stateErrors' = change.errors
                /\ AnonymousRuns(runs') = AnonymousRuns(change.runs)
                /\ Anonymous(lastWrite') = Anonymous(change.lastWrite)
                /\ last'.diagnostics =
                      Diagnostics("handleChange", last'.target, last'.value) ]_vars

\* A dropdown change that merged its value, started the run of its field
\* and the run of a related field showing an error.
C21_Witness ==
    /\ last.op = "handleDropdownChange"
    /\ last.merged # <<>>
    /\ stateValues[FieldOf(last)] = last.value
    /\ Len(last.calls) = 2
    /\ last.calls[2] \in Related(FieldOf(last))
    /\ last.fault = "none"
    /\ Len(runs) = 2

---------------------------------------------------------------------------
(* The write of a run *)

\* The validate calls of validateAll calls that return in this step.
ReturningInAll ==
    { j \in DOMAIN alls :
        /\ alls[j].ret = "pending"
        /\ Len(alls') = Len(alls)
        /\ alls'[j].ret # "pending"
        /\ alls'[j].k = alls[j].k }

\* A run has completed: the record of the most recent write is its own, and
\* the error map is what it was but for the entry of the run's effective
\* field, which is the run's result.
Wrote(run) ==
    /\ lastWrite'.ev = run.ev
    /\ lastWrite'.pname = run.pname
    /\ lastWrite'.name = NameToValidate(run.pname)
    /\ lastWrite'.errorMessage =
          LastFailureMessage(Validations(lastWrite'.name), run.value)
    /\ stateErrors' =
          [stateErrors EXCEPT ![NameToValidate(run.pname)] = lastWrite'.errorMessage]

\* C22: the step in which a validation run completes writes the run's
\* error string under its effective field name, whatever the entry was, and
\* the run is over: it writes exactly once.
C22_RunWritesOnce ==
    [][ /\ Len(runs') < Len(runs) =>
              \E k \in DOMAIN runs : runs' = Remove(runs, k) /\ Wrote(runs[k])
        /\ \A j \in ReturningInAll : Wrote(alls[j].run)
        /\ ( /\ Len(runs') >= Len(runs)
             /\ ReturningInAll = {}
             /\ last'.serial = last.serial
             /\ \A j \in DOMAIN alls \cap DOMAIN alls' : alls'[j].k = alls[j].k )
              => stateErrors' = stateErrors ]_vars

\* A change of the auxiliary input to a valid value has replaced the error
\* the main field showed by the empty string.
C22_Witness ==
    /\ HasCompleted
    /\ lastWrite.invoked > 0
    /\ lastWrite.pname \in Auxiliary
    /\ lastWrite.name # lastWrite.pname
    /\ lastWrite.name \in last.prior
    /\ lastWrite.ev = last.serial
    /\ lastWrite.errorMessage = ""
    /\ stateErrors[lastWrite.name] = ""

---------------------------------------------------------------------------
(* Fields without validations *)

\* C23 as claimed: a completed run for a configured field whose own
\* validation sequence is absent or empty wrote the empty string and
\* reported valid.
C23_EmptySequenceValid ==
    (HasCompleted /\ Option(lastWrite.pname).validations = <<>>) =>
        /\ lastWrite.errorMessage = ""
        /\ lastWrite.result

\* The effective field of the event's field has no validations.
NothingToValidate(e) ==
    /\ IsFieldEvent(e)
    /\ FieldOf(e) \in Configured
    /\ Validations(NameToValidate(FieldOf(e))) = <<>>

C23_Written ==
    /\ (HasCompleted /\ Validations(lastWrite.name) = <<>>) =>
            /\ lastWrite.invoked = 0
            /\ lastWrite.errorMessage = ""
            /\ lastWrite.result
    /\ NothingToValidate(last) =>
            /\ NameToValidate(FieldOf(last)) \in last.wrote
            /\ \A k \in DOMAIN runs :
                  runs[k].ev = last.serial => runs[k].name # NameToValidate(FieldOf(last))
    /\ \A j \in DOMAIN alls :
            Validations(alls[j].run.name) = <<>> => alls[j].ret = "true"
    /\ HasFinishedAll =>
            \A i \in DOMAIN validationOptions :
                Validations(NameToValidate(validationOptions[i].name)) = <<>>
                    => validationOptions[i].name \notin lastAll.invalid

\* C23 (amended): a validation run whose effective field (the nestedFieldOf
\* target when the field has one) has an absent or empty validation
\* sequence reports valid and writes the empty string under the effective
\* name, whatever the value and the previous error.
C23_NothingToValidate ==
    /\ []C23_Written
    /\ [][ (last'.serial # last.serial /\ NothingToValidate(last')) =>
                stateErrors'[NameToValidate(FieldOf(last'))] = "" ]_vars

\* A blur on a field without validations that showed an error cleared it.
C23_Witness ==
    /\ NothingToValidate(last)
    /\ last.op = "handleBlur"
    /\ last.value = ""
    /\ FieldOf(last) \in last.prior
    /\ FieldOf(last) \in last.wrote
    /\ stateErrors[FieldOf(last)] = ""

---------------------------------------------------------------------------
(* Partial application *)

\* The number of placeholders among the first n bound arguments.
PlaceholdersIn(bound, n) ==
    Cardinality({ j \in 1..n : j \in DOMAIN bound /\ bound[j] = partialFn_ })

\* The call-time arguments no placeholder consumes.
Extra(bound, callArgs) ==
    IF Len(callArgs) > PlaceholdersIn(bound, Len(bound))
    THEN Len(callArgs) - PlaceholdersIn(bound, Len(bound)) ELSE 0

\* What f receives, position by position.
Positional(bound, callArgs, resultArgs) ==
    /\ Len(resultArgs) = Len(bound) + Extra(bound, callArgs)
    /\ \A i \in DOMAIN bound :
          resultArgs[i] = IF bound[i] = partialFn_
                          THEN ArgAt(callArgs, PlaceholdersIn(bound, i - 1))
                          ELSE bound[i]
    /\ \A m \in 1..Extra(bound, callArgs) :
          resultArgs[Len(bound) + m]
              = callArgs[PlaceholdersIn(bound, Len(bound)) + m]

ViaPartialFn == { n \in DOMAIN applied : applied[n].via = "partialFn" }

C24_Examples ==
    \A n \in ViaPartialFn :
        /\ (applied[n].bound = <<partialFn_, "5">> /\ applied[n].callArgs = <<"3">>)
                => applied[n].resultArgs = <<"3", "5">>
        /\ (applied[n].bound = <<"5", partialFn_>> /\ applied[n].callArgs = <<"3">>)
                => applied[n].resultArgs = <<"5", "3">>
        /\ (applied[n].bound = <<partialFn_>> /\ applied[n].callArgs = <<"3", "9">>)
                => applied[n].resultArgs = <<"3", "9">>

C24_Positional ==
    \A n \in ViaPartialFn :
        Positional(applied[n].bound, applied[n].callArgs, applied[n].resultArgs)

\* C24: a call of a partial applies f once, to the bound arguments in their
\* positions with the k-th placeholder replaced by the k-th call-time
\* argument, followed by the call-time arguments no placeholder consumed.
C24_PartialApplication ==
    /\ [](C24_Positional /\ C24_Examples)
    /\ [][ applied' # applied =>
              /\ Len(applied') = Len(applied) + 1
              /\ SubSeq(applied', 1, Len(applied)) = applied ]_vars

\* A call that keeps a bound argument, fills a placeholder and appends an
\* argument.
C24_Witness ==
    \E n \in ViaPartialFn :
        /\ applied[n].bound = <<partialFn_, "5">>
        /\ applied[n].callArgs = <<"3", "9">>
        /\ applied[n].resultArgs = <<"3", "5", "9">>

---------------------------------------------------------------------------
(* Field references *)

\* The calls of a field-aware partial that were given a value map.
ViaWithFields ==
    { n \in DOMAIN applied : /\ applied[n].via = "partialFnWithFields"
                             /\ Len(applied[n].formValues) = 1 }

\* The bound list of call n with every reference replaced by the value the
\* call's map holds for the field.
ResolvedAt(n) ==
    [i \in DOMAIN applied[n].bound |->
        IF applied[n].bound[i] \in {"@startDate", "@endDate", "@dateInput"}
        THEN applied[n].formValues[1][
                CHOOSE f \in Names : "@" \o f = applied[n].bound[i]]
        ELSE applied[n].bound[i]]

C25_ResolvedAtCall ==
    \A n \in ViaWithFields :
        /\ Len(applied[n].callArgs) = 1
        /\ Positional(ResolvedAt(n), applied[n].callArgs, applied[n].resultArgs)
        /\ \A i \in DOMAIN applied[n].bound :
              /\ applied[n].bound[i] = "@endDate"
                    => applied[n].resultArgs[i] = applied[n].formValues[1].endDate
              /\ applied[n].bound[i] = "5" => applied[n].resultArgs[i] = "5"
              /\ applied[n].bound[i] = partialFn_
                    => applied[n].resultArgs[i] \in {applied[n].callArgs[1], Undefined}

C25_LaterValue ==
    \A n \in ViaWithFields, m \in ViaWithFields :
        \A i \in DOMAIN applied[n].bound :
            ( /\ applied[n].bound[i] = "@endDate"
              /\ applied[n].formValues[1].endDate # applied[m].formValues[1].endDate )
                => applied[n].resultArgs[i] # applied[m].resultArgs[i]

\* C25: a field-aware partial called with a value and a value map applies f
\* to the bound list in which every field reference is replaced by the
\* value the map holds at that call, everything else being as in a plain
\* partial; two calls with maps that differ in the referenced field pass
\* different arguments.
C25_FieldReferences == C25_ResolvedAtCall /\ C25_LaterValue

\* The same partial called twice, the referenced field changed in between.
C25_Witness ==
    /\ Len(applied) = 2
    /\ boundArgs = <<partialFn_, "@endDate">>
    /\ \A n \in {1, 2} : n \in ViaWithFields /\ applied[n].callArgs = <<"3">>
    /\ applied[1].formValues[1].endDate = "5"
    /\ applied[2].formValues[1].endDate = "9"
    /\ applied[1].resultArgs = <<"3", "5">>
    /\ applied[2].resultArgs = <<"3", "9">>

---------------------------------------------------------------------------
(* Purity of the partial *)

ViaPartial ==
    { n \in DOMAIN applied : applied[n].via \in {"partialFn", "partialFnWithFields"} }

\* Calls with the same arguments passed f the same argument list, whatever
\* was called in between.
C28_SameCallSameArguments ==
    \A n \in ViaPartial, m \in ViaPartial :
        ( /\ applied[n].via = applied[m].via
          /\ applied[n].callArgs = applied[m].callArgs
          /\ applied[n].formValues = applied[m].formValues )
            => applied[n].resultArgs = applied[m].resultArgs

\* Every call found the bound list the partial was built with, and a plain
\* partial passed f what a first call with these arguments passes.
C28_BoundAsBuilt ==
    \A n \in ViaPartial :
        /\ applied[n].bound = boundArgs
        /\ applied[n].via = "partialFn"
              => Positional(boundArgs, applied[n].callArgs, applied[n].resultArgs)

\* C28: calling a partial changes neither its bound argument list nor the
\* arguments of the call, so calls with the same arguments apply f to the
\* same argument list and calls with other arguments make no difference.
C28_Pure ==
    /\ [](C28_SameCallSameArguments /\ C28_BoundAsBuilt)
    /\ [][ /\ boundArgs' = boundArgs
           /\ \A n \in DOMAIN applied : n \in DOMAIN applied' /\ applied'[n] = applied[n]
         ]_vars

\* A partial with a placeholder called twice with the same argument.
C28_Witness ==
    /\ Len(applied) = 2
    /\ boundArgs = <<partialFn_, "5">>
    /\ \A n \in 1..2 : applied[n].via = "partialFn" /\ applied[n].callArgs = <<"3">>
    /\ applied[1].resultArgs = <<"3", "5">>
    /\ applied[2].resultArgs = <<"3", "5">>

---------------------------------------------------------------------------
(* Paired date fields *)

ViaPaired == { n \in DOMAIN applied : applied[n].via = "areDateFieldsPaired" }

\* null, undefined, the empty string, or white space only.
Absent(v) == v \in {Null, Undefined, "", " ", "   "}

C30_BothOrNeither ==
    \A n \in ViaPaired :
        applied[n].result
            = IF Absent(applied[n].callArgs[1]) = Absent(applied[n].callArgs[2])
              THEN "true" ELSE "false"

C30_Symmetric ==
    \A n \in ViaPaired, m \in ViaPaired :
        ( /\ applied[n].callArgs[1] = applied[m].callArgs[2]
          /\ applied[n].callArgs[2] = applied[m].callArgs[1] )
            => applied[n].result = applied[m].result

---------------------------------------------------------------------------
(* Field resolution *)

\* The name property when it is usable, else what getAttribute('name') gives.
NameOrAttribute(target) == IF Truthy(target.name) THEN target.name ELSE target.attr

\* The same event on a target that carries the field's name as its name
\* property.
Named(target) == Target(NameOrAttribute(target), Null)

C29_Step ==
    ( /\ last'.serial # last.serial
      /\ last'.op = "handleChange"
      /\ Truthy(NameOrAttribute(last'.target)) ) =>
        /\ last' = [Event("handleChange", Named(last'.target), last'.value,
                          setValueFromChangeEvent(Named(last'.target), last'.value),
                          ChangeEffects("handleChange", Named(last'.target), last'.value))
                        EXCEPT !.target = last'.target]
        /\ stateValues' = IF last'.value = Undefined THEN stateValues
                          ELSE [stateValues EXCEPT
                                    ![NameOrAttribute(last'.target)] = last'.value]
        /\ stateErrors' = ChangeEffects("handleChange", Named(last'.target),
                                        last'.value).errors
        /\ runs' = ChangeEffects("handleChange", Named(last'.target), last'.value).runs

\* C29: the field of an event is the target's name property when that is
\* usable and else the result of getAttribute('name'); a change whose target
\* has name null and the attribute name of a field is handled exactly as a
\* change on that field.
C29_FieldResolution ==
    /\ [](IsFieldEvent(last) /\ Truthy(NameOrAttribute(last.target))
            => FieldOf(last) = NameOrAttribute(last.target))
    /\ [][C29_Step]_vars

\* A change on a target with name null and the attribute name startDate
\* merged the value under startDate and validated startDate.
C29_Witness ==
    /\ last.op = "handleChange"
    /\ last.target = Target(Null, "startDate")
    /\ last.value = "x"
    /\ last.merged = <<Update("startDate", "x")>>
    /\ stateValues["startDate"] = "x"
    /\ last.calls # <<>>
    /\ \A i \in DOMAIN last.calls : last.calls[i] \in Names

---------------------------------------------------------------------------
(* The value map read by a validation run *)

\* C27 as claimed: a validateAll or handleSubmit call validates the value
\* map the caller holds when the call is made, values merged by earlier
\* handler calls included.
C27_ReadsValuesAtCall ==
    [][ (last'.serial # last.serial /\ last'.op \in {"validateAll", "handleSubmit"})
            => \A n \in Configured :
                    alls'[Len(alls')].values[n] = stateValues[n] ]_vars

---------------------------------------------------------------------------
(* Field-aware validators in the engine *)

\* The runs that await a validation, those of validateAll included.
Awaiting ==
    { runs[k] : k \in DOMAIN runs }
        \cup { alls[j].run : j \in { i \in DOMAIN alls : alls[i].ret = "pending" } }

\* C26 as claimed: whenever the engine runs a field-aware validator, each
\* field reference among its bound arguments reaches the predicate as a
\* value of the referenced field (the caller's, or that of the handlers'
\* instantiation), never as the reference string.
C26_SeesSiblingValue ==
    \A run \in Awaiting :
        Pending(run).isValid \in FieldAware =>
            \A i \in DOMAIN BoundOf(Pending(run).isValid) :
                IsFieldReference(BoundOf(Pending(run).isValid)[i]) =>
                    Received(Pending(run).isValid, run.value)[i]
                        \in { stateValues[FieldNameOf(BoundOf(Pending(run).isValid)[i])],
                              formValues[FieldNameOf(BoundOf(Pending(run).isValid)[i])] }

---------------------------------------------------------------------------
(* The value an auxiliary field's event validates *)

\* C31 as claimed: a run started by a change or blur of an auxiliary field
\* evaluates the main field's validations against the main field's stored
\* value (the caller's, or that of the handlers' instantiation), never
\* against the value of the auxiliary field's event.
C31_MainFieldOnStoredValue ==
    \A k \in DOMAIN runs :
        ( /\ runs[k].op \in {"handleChange", "handleBlur"}
          /\ runs[k].pname \in Auxiliary )
            => runs[k].value \in {stateValues[runs[k].name], formValues[runs[k].name]}

---------------------------------------------------------------------------
(* Writes of concurrent runs *)

\* The runs of change and blur that complete in this step.
CompletingRuns ==
    IF Len(runs') < Len(runs)
    THEN { k \in DOMAIN runs : runs' = Remove(runs, k) }
    ELSE {}

\* The fields a validateAll call came to in this step without having to
\* await anything.
PassedInAll ==
    { NameToValidate(validationOptions[alls'[j].k].name) :
        j \in { i \in DOMAIN alls : /\ Len(alls') = Len(alls)
                                    /\ alls'[i].k = alls[i].k + 1
                                    /\ alls'[i].ret = "true" } }

\* The keys of the error map this step writes.
WrittenKeys ==
    { runs[k].name : k \in CompletingRuns }
        \cup { alls[j].run.name : j \in ReturningInAll }
        \cup PassedInAll
        \cup (IF last'.serial # last.serial THEN last'.wrote ELSE {})

\* The key of the value map this step writes.
MergedKeys ==
    IF /\ last'.serial # last.serial
       /\ last'.op \in {"handleChange", "handleDropdownChange",
                        "handleCustomChange", "handleDatePickerChange"}
    THEN { last'.merged[i].field : i \in DOMAIN last'.merged }
    ELSE {}

C32_Step ==
    /\ \A n \in Names \ WrittenKeys : stateErrors'[n] = stateErrors[n]
    /\ \A n \in Names \ MergedKeys : stateValues'[n] = stateValues[n]
    /\ \A k \in CompletingRuns :
          /\ lastWrite'.name = runs[k].name
          /\ lastWrite'.ev = runs[k].ev
          /\ stateErrors'[runs[k].name] = lastWrite'.errorMessage
    /\ \A i \in DOMAIN last'.merged :
          last'.serial # last.serial
              => stateValues'[last'.merged[i].field] = last'.merged[i].value
    /\ Cardinality(MergedKeys) <= 1

\* C32: a write of the error map changes the entry of the run's effective
\* field only and a write of the value map the entry of the changed field
\* only; whatever runs are pending for other fields and in whatever order
\* they complete, every other entry is after the write what it was before,
\* and the entry of a field is what the run that completed last for it wrote.
C32_NoLostUpdate == [][C32_Step]_vars

\* Of two runs of one event for different fields, one has completed and
\* written its entry while the other is pending; the entry of the pending
\* run's field is the error it showed before the event.
C32_Witness ==
    /\ HasCompleted
    /\ lastWrite.ev = last.serial
    /\ lastWrite.invoked > 0
    /\ stateErrors[lastWrite.name] = lastWrite.errorMessage
    /\ \E k \in DOMAIN runs :
          /\ runs[k].ev = lastWrite.ev
          /\ runs[k].name # lastWrite.name
          /\ runs[k].name \in last.prior
          /\ stateErrors[runs[k].name] = errors[runs[k].name]
          /\ Truthy(stateErrors[runs[k].name])

---------------------------------------------------------------------------
(* Effects of an event that raises the configuration fault *)

\* C33 as claimed: a change or blur that raises the configuration fault
\* requests no value update and starts no validation run, so that no write
\* of the error map is made for it, at once or later.
C33_FaultHasNoEffect ==
    (last.op \in {"handleChange", "handleBlur"} /\ last.fault = "Error") =>
        /\ last.merged = <<>>
        /\ last.calls = <<>>
        /\ last.wrote = {}
        /\ \A k \in DOMAIN runs : runs[k].ev # last.serial
        /\ lastWrite.ev # last.serial

---------------------------------------------------------------------------
(* One level of fan-out *)

\* A change or blur on a configured field.
OnConfigured(e) == IsFieldEvent(e) /\ FieldOf(e) \in Configured

\* The validate calls of the event after the one for its own field.
FanOutOf(e) == SubSeq(e.calls, 2, Len(e.calls))

\* Runs are started by handler calls and by validateAll only: a run that
\* settles or completes starts none, and none is started for an event
\* after its handler call has returned.
C34_NoFurtherRuns ==
    /\ Len(runs') > Len(runs) => last'.serial # last.serial
    /\ \A k \in DOMAIN runs' :
          runs'[k].ev # last'.serial
              => \E i \in DOMAIN runs : /\ runs[i].ev = runs'[k].ev
                                        /\ runs[i].name = runs'[k].name

C34_Primary ==
    (OnConfigured(last) /\ FieldOf(last) \notin Auxiliary) =>
        /\ Len(last.calls) <= 1 + Len(Option(FieldOf(last)).relatedFields)
        /\ last.calls[1] = FieldOf(last)
        /\ \A i \in DOMAIN FanOutOf(last) : FanOutOf(last)[i] \in Related(FieldOf(last))
        /\ Cardinality({ k \in DOMAIN runs : runs[k].ev = last.serial })
              <= Len(last.calls)

\* C34 as claimed: a change or blur on a field with nestedFieldOf starts
\* exactly two runs; on any other configured field at most one more than it
\* lists related fields, all of them for the field or its related fields;
\* nothing else starts a run for the event.
C34_OneLevelExactlyTwo ==
    /\ [](C34_Primary
          /\ ((OnConfigured(last) /\ FieldOf(last) \in Auxiliary)
                => Len(last.calls) = 2))
    /\ [][C34_NoFurtherRuns]_vars

\* C34 (amended): as claimed, but a change or blur on a field with
\* nestedFieldOf starts two runs, for the field and for its target, only
\* when it raises no configuration fault; when it does, it has started the
\* first of them only.
C34_OneLevel ==
    /\ [](C34_Primary
          /\ ((OnConfigured(last) /\ FieldOf(last) \in Auxiliary) =>
                IF last.fault = "Error"
                THEN last.calls = <<FieldOf(last)>>
                ELSE last.calls = <<FieldOf(last), Option(FieldOf(last)).nestedFieldOf>>))
    /\ [][C34_NoFurtherRuns]_vars

\* startDate and endDate list each other; a change of startDate while
\* endDate showed an error validated both, once each, and both runs are
\* over.
C34_Witness ==
    /\ last.op = "handleChange"
    /\ FieldOf(last) = "startDate"
    /\ "endDate" \in Configured
    /\ "startDate" \in Related("endDate")
    /\ last.calls = <<"startDate", "endDate">>
    /\ runs = <<>>
    /\ lastWrite.ev = last.serial

---------------------------------------------------------------------------
(* Events on a field without configuration entry *)

\* C35 as claimed: a change or blur whose field has no entry in the
\* configuration raises no fault, neither to the caller nor inside a
\* validate call, a change with a value still merges it, and the event
\* writes no non-empty error.
C35_UnconfiguredIsValid ==
    ( /\ last.op \in {"handleChange", "handleBlur"}
      /\ Truthy(FieldOf(last))
      /\ FieldOf(last) \notin Configured ) =>
        /\ last.fault = "none"
        /\ last.rejected = {}
        /\ (last.op = "handleChange" /\ last.value # Undefined)
              => last.merged = <<Update(FieldOf(last), last.value)>>
        /\ \A n \in last.wrote : stateErrors[n] = ""

---------------------------------------------------------------------------
(* What a run reports *)

\* Every validation of the field's sequence passes on value.
AllPass(name, value) == NotPassing(Validations(name), value) = {}

\* The validation that did not pass last returned false and its
\* errorMessage is the empty string.
LastFailureIsSilent(name, value) ==
    /\ ~AllPass(name, value)
    /\ OutcomeAt(Validations(name), value,
                 Max(NotPassing(Validations(name), value))) = "false"
    /\ Validations(name)[Max(NotPassing(Validations(name), value))].errorMessage = ""

\* C36 as claimed: a run reports valid exactly when every validation of the
\* effective field's sequence passed, and validateAll returns true only
\* when every validation of every configured field passed, whatever the
\* error messages are.
C36_ValidIffAllPass ==
    /\ HasCompleted =>
          (lastWrite.result <=> AllPass(lastWrite.name, lastWrite.value))
    /\ (HasFinishedAll /\ lastAll.result) =>
          \A i \in DOMAIN validationOptions :
              AllPass(NameToValidate(validationOptions[i].name),
                      lastAll.values[NameToValidate(validationOptions[i].name)])

\* C36 (amended): a run reports valid exactly when the error string it
\* wrote is the empty string: when every validation passed, or when the
\* last validation that did not pass returned false and has an empty
\* errorMessage.  A missing errorMessage, or one on a validation that threw,
\* leaves the run invalid.  validateAll returns true exactly when this holds
\* of every configured field.
C36_ValidIffNoMessage ==
    /\ HasCompleted =>
          /\ lastWrite.result <=> lastWrite.errorMessage = ""
          /\ lastWrite.result <=>
                \/ AllPass(lastWrite.name, lastWrite.value)
                \/ LastFailureIsSilent(lastWrite.name, lastWrite.value)
    /\ HasFinishedAll =>
          (lastAll.result <=>
              \A i \in DOMAIN validationOptions :
                  LET e == NameToValidate(validationOptions[i].name)
                  IN  AllPass(e, lastAll.values[e])
                          \/ LastFailureIsSilent(e, lastAll.values[e]))

\* validateAll returned true although a validation of the field returned
\* false: its errorMessage is empty.
C36_Witness ==
    /\ HasFinishedAll
    /\ lastAll.result
    /\ lastAll.visited = 1
    /\ LastFailureIsSilent(validationOptions[1].name,
                           lastAll.values[validationOptions[1].name])
    /\ stateErrors[validationOptions[1].name] = ""

---------------------------------------------------------------------------
(* Who writes the value map *)

ValueWriters ==
    {"handleChange", "handleDropdownChange", "handleCustomChange",
     "handleDatePickerChange"}

C37_Step ==
    /\ (last'.serial # last.serial /\ last'.op \notin ValueWriters) =>
          /\ last'.op \in {"handleBlur", "validateAll", "handleSubmit"}
          /\ last'.merged = <<>>
          /\ stateValues' = stateValues
    /\ last'.serial = last.serial => stateValues' = stateValues
    /\ stateValues' # stateValues =>
          /\ last'.serial # last.serial
          /\ last'.op \in ValueWriters
          /\ last'.merged # <<>>

\* C37: handleBlur, validateAll, handleSubmit and every step of a
\* validation run, fan-out runs included, leave the value map as it is;
\* the value map changes only in a call of handleChange,
\* handleDropdownChange, handleCustomChange or handleDatePickerChange.
C37_ValuesFrame == [][C37_Step]_vars

\* A blur carried a value other than the stored one and fanned out to a
\* related field; both runs are over, errors were written, and the value
\* map still holds the stored value.
C37_Witness ==
    /\ last.op = "handleBlur"
    /\ OnPrimary(last)
    /\ Truthy(last.value)
    /\ stateValues[FieldOf(last)] # last.value
    /\ stateValues = formValues
    /\ Len(last.calls) = 2
    /\ runs = <<>>
    /\ lastWrite.ev = last.serial
    /\ lastWrite.fan

---------------------------------------------------------------------------
(* Arity of a partial *)

\* The placeholders of the bound list that no call-time argument reaches.
Unreached(bound, callArgs) ==
    { i \in DOMAIN bound :
        bound[i] = partialFn_ /\ PlaceholdersIn(bound, i) > Len(callArgs) }

\* C38: f receives as many arguments as the partial has bound arguments,
\* plus the call-time arguments beyond the number of placeholders; a
\* placeholder no call-time argument reaches is passed as undefined, never
\* as the placeholder and never dropped; a partial without bound arguments
\* passes the call-time arguments on as they are.
C38_Arity ==
    \A n \in ViaPartialFn :
        /\ Len(applied[n].resultArgs)
              = Len(applied[n].bound) + Extra(applied[n].bound, applied[n].callArgs)
        /\ Len(applied[n].callArgs) >= PlaceholdersIn(applied[n].bound, Len(applied[n].bound))
              => Unreached(applied[n].bound, applied[n].callArgs) = {}
        /\ \A i \in Unreached(applied[n].bound, applied[n].callArgs) :
              applied[n].resultArgs[i] = Undefined
        /\ \A i \in DOMAIN applied[n].resultArgs : applied[n].resultArgs[i] # partialFn_
        /\ applied[n].bound = <<>> => applied[n].resultArgs = applied[n].callArgs

\* Two placeholders and one call-time argument: f received the argument and
\* undefined.
C38_Witness ==
    \E n \in ViaPartialFn :
        /\ applied[n].bound = <<partialFn_, partialFn_>>
        /\ applied[n].callArgs = <<"3">>
        /\ applied[n].resultArgs = <<"3", Undefined>>

====
